---- MODULE Spec2Model ----
(***************************************************************************)
(* Model of the document analysis engine of acadcheck                      *)
(* (src/src/lib/localDetector.ts): sentence segmentation, per-sentence     *)
(* features, n-gram similarity, heuristic scores, the optional fusion with *)
(* the ML collaborator, and the document-level aggregation.                *)
(*                                                                         *)
(* A text is a sequence of one-character strings.  A JavaScript number is  *)
(* a fixed-point integer counted in 1/Unit, or the value NaN.              *)
(***************************************************************************)
EXTENDS Integers, Sequences, FiniteSets, TLC

(***************************************************************************)
(* Numbers                                                                 *)
(***************************************************************************)

\* One unit of the fixed-point representation of a JavaScript number.
Unit == 100 * 100

\* The JavaScript value NaN (0/0, or arithmetic on undefined).
NaN == 0 - 1000 * 1000 * 1000

Num(k) == k * Unit

IsNaN(x) == x = NaN

Min2(a, b) == IF a < b THEN a ELSE b

Max2(a, b) == IF a > b THEN a ELSE b

Abs(a) == IF a < 0 THEN 0 - a ELSE a

\* x * (num / den) on fixed-point numbers; NaN propagates.
Scale(x, num, den) == IF IsNaN(x) THEN NaN ELSE (x * num) \div den

\* a / b of two plain integers as a fixed-point number; 0/0 is NaN.
Ratio(a, b) == IF b = 0 THEN NaN ELSE (a * Unit) \div b

\* a + b; NaN propagates.
Plus(a, b) == IF IsNaN(a) \/ IsNaN(b) THEN NaN ELSE a + b

\* Math.round: the nearest integer, halves towards +Infinity; NaN stays NaN.
MathRound(x) == IF IsNaN(x) THEN NaN ELSE ((x + Unit \div 2) \div Unit) * Unit

\* Math.floor
MathFloor(x) == IF IsNaN(x) THEN NaN ELSE (x \div Unit) * Unit

\* Math.min(a, b): NaN if either is NaN.
MathMin(a, b) == IF IsNaN(a) \/ IsNaN(b) THEN NaN ELSE Min2(a, b)

\* Math.max(a, b): NaN if either is NaN.
MathMax(a, b) == IF IsNaN(a) \/ IsNaN(b) THEN NaN ELSE Max2(a, b)

\* a > b in JavaScript: false when either side is NaN.
JsGt(a, b) == ~IsNaN(a) /\ ~IsNaN(b) /\ a > b

\* a < b in JavaScript: false when either side is NaN.
JsLt(a, b) == ~IsNaN(a) /\ ~IsNaN(b) /\ a < b

RECURSIVE SumSeq(_)
SumSeq(s) == IF s = <<>> THEN 0 ELSE Head(s) + SumSeq(Tail(s))

RECURSIVE SumNum(_)
SumNum(s) == IF s = <<>> THEN 0 ELSE Plus(Head(s), SumNum(Tail(s)))

(***************************************************************************)
(* Characters and strings                                                  *)
(***************************************************************************)

Lowers == <<"a","b","c","d","e","f","g","h","i","j","k","l","m",
            "n","o","p","q","r","s","t","u","v","w","x","y","z">>

Uppers == <<"A","B","C","D","E","F","G","H","I","J","K","L","M",
            "N","O","P","Q","R","S","T","U","V","W","X","Y","Z">>

LowerSet == {Lowers[i] : i \in DOMAIN Lowers}

UpperSet == {Uppers[i] : i \in DOMAIN Uppers}

DigitSet == {"0","1","2","3","4","5","6","7","8","9"}

\* \s of a JavaScript regular expression (the members that occur in the texts)
IsSpace(c) == c \in {" ", "\t", "\n"}

\* \w of a JavaScript regular expression
IsWordChar(c) == c \in LowerSet \cup UpperSet \cup DigitSet \cup {"_"}

\* String.prototype.toLowerCase on one character
lowerChar(c) ==
  IF c \in UpperSet THEN Lowers[CHOOSE i \in DOMAIN Uppers : Uppers[i] = c] ELSE c

\* A sequence given by a function constructor, as a tuple of evaluated elements
Tuple(f) == f \o <<>>

toLowerCase(s) == Tuple([i \in DOMAIN s |-> lowerChar(s[i])])

\* The string made of the characters of s
RECURSIVE Join(_)
Join(s) == IF s = <<>> THEN "" ELSE Head(s) \o Join(Tail(s))

\* String.prototype.trim
RECURSIVE trimLeft(_)
trimLeft(s) == IF s # <<>> /\ IsSpace(Head(s)) THEN trimLeft(Tail(s)) ELSE s

RECURSIVE trimRight(_)
trimRight(s) ==
  IF s # <<>> /\ IsSpace(s[Len(s)]) THEN trimRight(SubSeq(s, 1, Len(s) - 1)) ELSE s

trim(s) == trimRight(trimLeft(s))

\* The least member of a set of positions of a string of length n, or n + 1 when
\* there is none: where a left-to-right scan for those positions stops
FirstOf(hits, n) ==
  IF hits = {} THEN n + 1 ELSE CHOOSE j \in hits : \A k \in hits : j <= k

\* Number of whitespace characters of s from position i on (the greedy \s+)
RECURSIVE spaceRun(_, _)
spaceRun(s, i) == IF i <= Len(s) /\ IsSpace(s[i]) THEN 1 + spaceRun(s, i + 1) ELSE 0

(***************************************************************************)
(* SentenceSegmenter                                                       *)
(***************************************************************************)

\* The lookahead (?=[A-Z...]|\d|"|\(|\[) at position i
SentenceStartAt(s, i) ==
  i <= Len(s) /\ s[i] \in UpperSet \cup DigitSet \cup {"\"", "(", "["}

\* Length of the separator /(?<=[.!?])\s+(?=...)/ matched at position i, or 0
SeparatorAt(s, i) ==
  IF /\ i > 1
     /\ s[i - 1] \in {".", "!", "?"}
     /\ spaceRun(s, i) > 0
     /\ SentenceStartAt(s, i + spaceRun(s, i))
  THEN spaceRun(s, i)
  ELSE 0

\* String.prototype.split on the separator: the pieces of s from position
\* `from` on, each search for a separator resuming where the previous one ended
RECURSIVE splitFrom(_, _)
RECURSIVE splitAt(_, _, _)
splitFrom(s, from) ==
  splitAt(s, from, FirstOf({j \in from..Len(s) : SeparatorAt(s, j) > 0}, Len(s)))

\* ... when the next separator starts at position i (Len(s) + 1: there is none)
splitAt(s, from, i) ==
  IF i > Len(s) THEN << SubSeq(s, from, Len(s)) >>
  ELSE << SubSeq(s, from, i - 1) >> \o splitFrom(s, i + SeparatorAt(s, i))

\* .map(s => s.trim())
trimAll(pieces) == Tuple([k \in DOMAIN pieces |-> trim(pieces[k])])

\* .filter(Boolean): the non-empty strings
RECURSIVE filterBoolean(_)
filterBoolean(pieces) ==
  IF pieces = <<>> THEN <<>>
  ELSE (IF Head(pieces) # <<>> THEN << Head(pieces) >> ELSE <<>>) \o filterBoolean(Tail(pieces))

\* The split alone, its pieces neither trimmed nor filtered
splitSentencesUntrimmed(text) == splitFrom(text, 1)

splitSentences(text) == filterBoolean(trimAll(splitFrom(text, 1)))

\* text.replace(/([.!?])\s+(?=[A-Z...]|\d|"|\(|\[)/g, '$1|'): the text from
\* position i on, each terminal punctuation mark that is followed by
\* whitespace and a sentence start kept and its whitespace replaced by "|"
RECURSIVE withDelims(_, _)
withDelims(s, i) ==
  IF i > Len(s) THEN <<>>
  ELSE IF SeparatorAt(s, i + 1) > 0
       THEN << s[i], "|" >> \o withDelims(s, i + 1 + SeparatorAt(s, i + 1))
       ELSE << s[i] >> \o withDelims(s, i + 1)

\* .split('|'): the pieces of s from position `from` on between the "|"
RECURSIVE splitBar(_, _)
splitBar(s, from) ==
  IF FirstOf({j \in from..Len(s) : s[j] = "|"}, Len(s)) > Len(s)
  THEN << SubSeq(s, from, Len(s)) >>
  ELSE << SubSeq(s, from, FirstOf({j \in from..Len(s) : s[j] = "|"}, Len(s)) - 1) >>
       \o splitBar(s, FirstOf({j \in from..Len(s) : s[j] = "|"}, Len(s)) + 1)

\* The two-pass splitSentences: mark, split on the mark, trim, filter
splitSentencesTwoPass(text) ==
  filterBoolean(trimAll(splitBar(withDelims(text, 1), 1)))

(***************************************************************************)
(* FeatureExtractor                                                        *)
(***************************************************************************)

STOPWORDS == {
  "the","of","and","to","in","a","is","that","for","on","with","as","by","it","be","are","this","an","or",
  "from","at","which","but","not","we","our","their","also","can","have","has","was","were","than","these",
  "those","such","may","more","most","any","all","some","into","between","over","under","about","after",
  "before","during","through","per","i","you","he","she","they","them","his","her","its","there","here" }

\* The characters of /[a-z0-9']/ (the range a-grave..y-diaeresis does not occur in the texts)
IsTokenChar(c) == c \in LowerSet \cup DigitSet \cup {"'"}

\* The maximal runs of token characters of s from position i on (the matches of
\* /[a-z0-9']+/g), as strings
RECURSIVE tokenRuns(_, _)
RECURSIVE runsFrom(_, _)
RECURSIVE runFromTo(_, _, _)
tokenRuns(s, i) == runsFrom(s, FirstOf({j \in i..Len(s) : IsTokenChar(s[j])}, Len(s)))

\* ... when the next run starts at position first (Len(s) + 1: there is none)
runsFrom(s, first) ==
  IF first > Len(s) THEN <<>>
  ELSE runFromTo(s, first, FirstOf({j \in first..Len(s) : ~IsTokenChar(s[j])}, Len(s)))

\* ... and ends before position after
runFromTo(s, first, after) == << Join(SubSeq(s, first, after - 1)) >> \o tokenRuns(s, after)

words(sentence) == tokenRuns(toLowerCase(sentence), 1)

Range(f) == {f[i] : i \in DOMAIN f}

uniqueRatio(ws) == IF Len(ws) # 0 THEN Ratio(Cardinality(Range(ws)), Len(ws)) ELSE 0

stopwordRatio(ws) ==
  IF Len(ws) # 0
  THEN Ratio(Cardinality({i \in DOMAIN ws : ws[i] \in STOPWORDS}), Len(ws))
  ELSE 0

avgWordLen(ws) ==
  IF Len(ws) # 0 THEN Ratio(SumSeq([i \in DOMAIN ws |-> Len(ws[i])]), Len(ws)) ELSE 0

\* Number of positions of s that hold a character of the set cs
countChars(s, cs) == Cardinality({i \in DOMAIN s : s[i] \in cs})

\* sentence.split(/\s+/).length: one more than the number of maximal whitespace runs
splitSpaceCount(s) ==
  1 + Cardinality({i \in DOMAIN s : IsSpace(s[i]) /\ (i = 1 \/ ~IsSpace(s[i - 1]))})

\* The regular expression's \b between positions i-1 and i of s
WordBoundary(s, i) ==
  (i > 1 /\ i - 1 <= Len(s) /\ IsWordChar(s[i - 1])) # (i <= Len(s) /\ IsWordChar(s[i]))

\* The literal w matches s at position i (case-insensitive when ci)
LiteralAt(s, i, w, ci) ==
  /\ i + Len(w) - 1 <= Len(s)
  /\ Join(IF ci THEN toLowerCase(SubSeq(s, i, i + Len(w) - 1))
                ELSE SubSeq(s, i, i + Len(w) - 1)) = w

\* Number of decimal digits of s from position i on (the greedy \d+)
RECURSIVE digitRun(_, _)
digitRun(s, i) == IF i <= Len(s) /\ s[i] \in DigitSet THEN 1 + digitRun(s, i + 1) ELSE 0

\* Number of lowercase letters of s from position i on (the greedy [a-z]+)
RECURSIVE lowerRun(_, _)
lowerRun(s, i) == IF i <= Len(s) /\ s[i] \in LowerSet THEN 1 + lowerRun(s, i + 1) ELSE 0

\* End of the line that holds position i ("." of a regular expression stops at a newline)
lineEnd(s, i) == FirstOf({j \in i..Len(s) : s[j] = "\n"}, Len(s)) - 1

\* Between positions i and e of s: an opening parenthesis, later four digits
\* in a row, later a closing parenthesis
YearCitationWithin(s, i, e) ==
  \E a \in i..e : \E d \in (a + 1)..e : \E c \in (d + 4)..e :
     /\ s[a] = "("
     /\ \A k \in 0..3 : s[d + k] \in DigitSet
     /\ s[c] = ")"

\* The lookahead .*\(.*\d{4}.*\) succeeds at position i (on the rest of the line)
HasYearCitation(s, i) == YearCitationWithin(s, i, lineEnd(s, i))

\* A pattern of the libraries: \b(alt1|alt2|...) with flags gi, followed by
\*   "b"      \b
\*   "none"   nothing
\*   "digits" \d+
\*   "nocite" \s+(?!.*\(.*\d{4}.*\))
\* The two patterns that are no such alternation are named by kind:
\*   "etal"        /\b[A-Z][a-z]+\s+et\s+al\.\s+\(\d{4}\)/g
\*   "definition"  /^[A-Z][a-z]+\s+is\s+(defined as|a type of|characterized by)/gm
Pat(alts, tail) == [kind |-> "alts", alts |-> alts, tail |-> tail]

Special(kind) == [kind |-> kind, alts |-> <<>>, tail |-> "none"]

\* The greatest member of a set of numbers, or `none` when the set is empty
GreatestOf(values, none) ==
  IF values = {} THEN none ELSE CHOOSE m \in values : \A v \in values : v <= m

\* Length of the tail of a pattern matched at position e + 1, or -1
TailLen(s, e, tail) ==
  CASE tail = "b" -> IF WordBoundary(s, e + 1) THEN 0 ELSE 0 - 1
    [] tail = "none" -> 0
    [] tail = "digits" -> IF digitRun(s, e + 1) > 0 THEN digitRun(s, e + 1) ELSE 0 - 1
    [] tail = "nocite" ->
         GreatestOf({k \in 1..spaceRun(s, e + 1) : ~HasYearCitation(s, e + 1 + k)}, 0 - 1)

\* Length of the match of the alternative w followed by the tail at position i, or 0
AltMatchLen(s, i, w, tail) ==
  IF LiteralAt(s, i, w, TRUE) /\ TailLen(s, i + Len(w) - 1, tail) >= 0
  THEN Len(w) + TailLen(s, i + Len(w) - 1, tail)
  ELSE 0

\* Length of the match at position i of the first of the alternatives that matches, or 0
RECURSIVE AltsMatchLen(_, _, _, _)
AltsMatchLen(s, i, alts, tail) ==
  IF alts = <<>> THEN 0
  ELSE IF AltMatchLen(s, i, Head(alts), tail) > 0 THEN AltMatchLen(s, i, Head(alts), tail)
  ELSE AltsMatchLen(s, i, Tail(alts), tail)

\* Length of the match of pat at position i, or 0
PatMatchLen(s, i, pat) ==
  IF WordBoundary(s, i) THEN AltsMatchLen(s, i, pat.alts, pat.tail) ELSE 0

\* The steps of a match, each from position p (0: the match has failed) to the
\* position after the step (0: it fails)
\* [A-Z][a-z]+
AfterName(s, p) ==
  IF p > 0 /\ p <= Len(s) /\ s[p] \in UpperSet /\ lowerRun(s, p + 1) > 0
  THEN p + 1 + lowerRun(s, p + 1)
  ELSE 0

\* \s+
AfterSpaces(s, p) == IF p > 0 /\ spaceRun(s, p) > 0 THEN p + spaceRun(s, p) ELSE 0

\* the first of the literals ws that matches
RECURSIVE AfterLiteral(_, _, _)
AfterLiteral(s, p, ws) ==
  IF p = 0 \/ ws = <<>> THEN 0
  ELSE IF LiteralAt(s, p, Head(ws), FALSE) THEN p + Len(Head(ws))
  ELSE AfterLiteral(s, p, Tail(ws))

\* \d{4}
AfterYear(s, p) == IF p > 0 /\ digitRun(s, p) >= 4 THEN p + 4 ELSE 0

\* Length of a match that starts at i and ends before position e (0: no match)
MatchLen(i, e) == IF e > 0 THEN e - i ELSE 0

\* /\b[A-Z][a-z]+\s+et\s+al\.\s+\(\d{4}\)/ at position i: length of the match, or 0
EtAlMatchLen(s, i) ==
  IF WordBoundary(s, i)
  THEN MatchLen(i,
         AfterLiteral(s,
           AfterYear(s,
             AfterLiteral(s,
               AfterSpaces(s,
                 AfterLiteral(s,
                   AfterSpaces(s,
                     AfterLiteral(s, AfterSpaces(s, AfterName(s, i)), << "et" >>)),
                   << "al." >>)),
               << "(" >>)),
           << ")" >>))
  ELSE 0

\* /^[A-Z][a-z]+\s+is\s+(defined as|a type of|characterized by)/m at position i
DefinitionMatchLen(s, i) ==
  IF i = 1 \/ (i - 1 <= Len(s) /\ s[i - 1] = "\n")
  THEN MatchLen(i,
         AfterLiteral(s,
           AfterSpaces(s, AfterLiteral(s, AfterSpaces(s, AfterName(s, i)), << "is" >>)),
           << "defined as", "a type of", "characterized by" >>))
  ELSE 0

\* Length of the match of a pattern at position i, or 0
MatchLenAt(s, i, pat) ==
  CASE pat.kind = "etal" -> EtAlMatchLen(s, i)
    [] pat.kind = "definition" -> DefinitionMatchLen(s, i)
    [] OTHER -> PatMatchLen(s, i, pat)

\* (sentence.match(pattern) || []).length with the g flag: the matches found left
\* to right, each search resuming where the previous match ended
RECURSIVE matchCount(_, _, _)
RECURSIVE matchCountAt(_, _, _)
matchCount(s, i, pat) ==
  matchCountAt(s, FirstOf({k \in i..Len(s) : MatchLenAt(s, k, pat) > 0}, Len(s)), pat)

\* ... when the next match starts at position j (Len(s) + 1: there is none)
matchCountAt(s, j, pat) ==
  IF j > Len(s) THEN 0 ELSE 1 + matchCount(s, j + MatchLenAt(s, j, pat), pat)

AI_PATTERNS == <<
  Pat(<<"it is important to note", "it should be noted", "it is worth noting">>, "b"),
  Pat(<<"in conclusion", "to sum up", "as a result">>, "b"),
  Pat(<<"this study aims to", "the objective of this", "the purpose of this">>, "b"),
  Pat(<<"further research is needed", "additional studies should">>, "b"),
  Pat(<<"it can be observed that", "as shown in", "based on the results">>, "b") >>

PLAGIARISM_PATTERNS == <<
  Pat(<<"according to research", "studies show", "research indicates">>, "nocite"),
  Special("etal"),
  Special("definition"),
  Pat(<<"in this chapter", "this section", "as shown in figure", "as described in">>, "none"),
  Pat(<<"the main objective", "the purpose of this project", "the goal of this study">>, "b"),
  Pat(<<"this paper presents", "we propose a", "our methodology">>, "b") >>

ACADEMIC_PATTERNS == <<
  Pat(<<"this study", "research shows", "the results indicate">>, "b"),
  Pat(<<"in this chapter", "as discussed in", "the literature suggests">>, "b"),
  Pat(<<"figure ", "table ", "equation ">>, "digits"),
  Pat(<<"however", "moreover", "furthermore", "therefore", "consequently">>, "b"),
  Pat(<<"in this article", "this paper", "we will discuss">>, "b"),
  Pat(<<"as mentioned previously", "based on the data", "the analysis shows">>, "b"),
  Pat(<<"according to", "similarly", "in contrast">>, "b") >>

\* Total number of matches of the patterns of a library in the sentence
libraryMatches(sentence, lib) ==
  SumSeq([k \in DOMAIN lib |-> matchCount(sentence, 1, lib[k])])

syntaxComplexity(sentence) ==
  LET clauseMarkers == countChars(sentence, {",", ":", ";"})
      subordination ==
        matchCount(sentence, 1,
          Pat(<<"that", "which", "who", "where", "when", "while", "although", "because", "since">>, "b"))
      wordCount == splitSpaceCount(sentence)
  IN IF wordCount # 0
     THEN Min2(Unit, Scale(Ratio(clauseMarkers + subordination * 2, wordCount), 3, 1))
     ELSE 0

\* The square of a fixed-point number (computed on hundredths, to stay within 32 bits)
Square(d) == (Abs(d) \div 100) * (Abs(d) \div 100)

variance(arr) ==
  IF Len(arr) < 2 THEN 0
  ELSE LET mean == SumSeq(arr) \div Len(arr)
       IN SumSeq([i \in DOMAIN arr |-> Square(arr[i] - mean)]) \div Len(arr)

\* words(s).reduce((a, w) => a + w.length, 0) / Math.max(1, words(s).length)
avgWordLength(ws) == Num(SumSeq([k \in DOMAIN ws |-> Len(ws[k])])) \div Max2(1, Len(ws))

detectStylometricPatterns(sentences) ==
  IF Len(sentences) < 3 THEN Unit \div 2
  ELSE Max2(0, Unit -
         (variance(Tuple([i \in DOMAIN sentences |-> Num(splitSpaceCount(sentences[i]))])) \div 150
          + variance(Tuple([i \in DOMAIN sentences |-> avgWordLength(words(sentences[i]))])) \div 15))

intersectionRatio(a, b) ==
  Ratio(Cardinality(a \cap b), Max2(Max2(Cardinality(a), Cardinality(b)), 1))

\* score / count over the neighbours that are there, 0.6 when there is none
coherenceWith(currentWords, neighbours) ==
  IF Len(neighbours) > 0
  THEN SumSeq([k \in DOMAIN neighbours |->
                 intersectionRatio(currentWords, Range(words(neighbours[k])))]) \div Len(neighbours)
  ELSE Scale(Unit, 6, 10)

\* prev and next are sequences of at most one sentence (empty: undefined)
semanticCoherence(current, prev, next) ==
  coherenceWith(Range(words(current)), filterBoolean(prev \o next))

detectAIPatterns(sentence) == Scale(Num(libraryMatches(sentence, AI_PATTERNS)), 8, 10)

detectPlagiarismPatterns(sentence) == Num(libraryMatches(sentence, PLAGIARISM_PATTERNS))

hasAcademicFeatures(sentence) ==
  Min2(Unit, Scale(Num(libraryMatches(sentence, ACADEMIC_PATTERNS)), 7, 10))

\* Math.log2 of the integers 1..256, in 1/Unit
Log2Table == <<
  0, 10000, 15850, 20000, 23219, 25850, 28074, 30000, 31699, 33219, 34594, 35850,
  37004, 38074, 39069, 40000, 40875, 41699, 42479, 43219, 43923, 44594, 45236, 45850,
  46439, 47004, 47549, 48074, 48580, 49069, 49542, 50000, 50444, 50875, 51293, 51699,
  52095, 52479, 52854, 53219, 53576, 53923, 54263, 54594, 54919, 55236, 55546, 55850,
  56147, 56439, 56724, 57004, 57279, 57549, 57814, 58074, 58329, 58580, 58826, 59069,
  59307, 59542, 59773, 60000, 60224, 60444, 60661, 60875, 61085, 61293, 61497, 61699,
  61898, 62095, 62288, 62479, 62668, 62854, 63038, 63219, 63399, 63576, 63750, 63923,
  64094, 64263, 64429, 64594, 64757, 64919, 65078, 65236, 65392, 65546, 65699, 65850,
  65999, 66147, 66294, 66439, 66582, 66724, 66865, 67004, 67142, 67279, 67415, 67549,
  67682, 67814, 67944, 68074, 68202, 68329, 68455, 68580, 68704, 68826, 68948, 69069,
  69189, 69307, 69425, 69542, 69658, 69773, 69887, 70000, 70112, 70224, 70334, 70444,
  70553, 70661, 70768, 70875, 70980, 71085, 71189, 71293, 71396, 71497, 71599, 71699,
  71799, 71898, 71997, 72095, 72192, 72288, 72384, 72479, 72574, 72668, 72761, 72854,
  72946, 73038, 73129, 73219, 73309, 73399, 73487, 73576, 73663, 73750, 73837, 73923,
  74009, 74094, 74179, 74263, 74346, 74429, 74512, 74594, 74676, 74757, 74838, 74919,
  74998, 75078, 75157, 75236, 75314, 75392, 75469, 75546, 75622, 75699, 75774, 75850,
  75925, 75999, 76073, 76147, 76221, 76294, 76366, 76439, 76511, 76582, 76653, 76724,
  76795, 76865, 76935, 77004, 77074, 77142, 77211, 77279, 77347, 77415, 77482, 77549,
  77616, 77682, 77748, 77814, 77879, 77944, 78009, 78074, 78138, 78202, 78265, 78329,
  78392, 78455, 78517, 78580, 78642, 78704, 78765, 78826, 78887, 78948, 79009, 79069,
  79129, 79189, 79248, 79307, 79366, 79425, 79484, 79542, 79600, 79658, 79715, 79773,
  79830, 79887, 79944, 80000 >>

\* -sum (c/n) log2(c/n) over the characters of s = log2 n - (sum c log2 c) / n
charEntropy(s) ==
  LET n == Len(s)
      chars == Range(s)
      count(ch) == Cardinality({i \in DOMAIN s : s[i] = ch})
      RECURSIVE weighted(_)
      weighted(cs) ==
        IF cs = {} THEN 0
        ELSE LET ch == CHOOSE x \in cs : TRUE
             IN count(ch) * Log2Table[count(ch)] + weighted(cs \ {ch})
  IN IF n = 0 THEN 0 ELSE Log2Table[n] - weighted(chars) \div n

(***************************************************************************)
(* SimilarityIndex                                                         *)
(***************************************************************************)

jaccard(a, b) ==
  LET intersection == Cardinality(a \cap b)
      union == Cardinality(a) + Cardinality(b) - intersection
  IN IF union # 0 THEN Ratio(intersection, union) ELSE 0

\* ws.slice(i, i + n).join(' ')
RECURSIVE joinSpace(_)
joinSpace(ws) ==
  IF ws = <<>> THEN ""
  ELSE IF Len(ws) = 1 THEN Head(ws)
  ELSE Head(ws) \o " " \o joinSpace(Tail(ws))

ngrams(ws, n) == {joinSpace(SubSeq(ws, i, i + n - 1)) : i \in 1..(Len(ws) - n + 1)}

(***************************************************************************)
(* Math.random                                                             *)
(***************************************************************************)

\* Math.random is a pseudo-random generator: its state is a number of
\* 0..RandMod-1, a draw returns state/RandMod (a value of [0,1)) and steps the
\* state.  The seed is arbitrary.
RandMod == 16

randomValue(r) == (r * Unit) \div RandMod

nextRandom(r) == (5 * r + 3) % RandMod

\* The state of the generator after k draws
RECURSIVE afterDraws(_, _)
afterDraws(r, k) == IF k = 0 THEN r ELSE afterDraws(nextRandom(r), k - 1)

\* randomVariation(base, range) with the generator in state r; range = rangeNum/rangeDen
randomVariation(base, rangeNum, rangeDen, r) ==
  LET variation == Scale(randomValue(r), rangeNum * 2, rangeDen) - Scale(Unit, rangeNum, rangeDen)
  IN MathMax(0, MathMin(Num(26), Plus(base, variation)))

(***************************************************************************)
(* HeuristicScorer                                                         *)
(***************************************************************************)

\* opts?.ngram || 4 (an absent ngram and ngram = 0 are both written 0)
ngramSize(opts) == IF opts.ngram = 0 THEN 4 ELSE opts.ngram

\* A turn that keeps the document compared last, whatever its similarity
externalStepLast(before, similarity, name) ==
  [externalSimilarity |-> similarity, source |-> << name >>]

\* One turn of the loop over corpusSets: the running [externalSimilarity, source]
\* after a corpus document of that name and similarity
externalStep(before, similarity, name) ==
  IF similarity > before.externalSimilarity
  THEN [externalSimilarity |-> similarity, source |-> << name >>]
  ELSE before

\* The loop over corpusSets: the running [externalSimilarity, source] after
\* the first k corpus documents
RECURSIVE externalScan(_, _, _)
externalScan(gram, corpusSets, k) ==
  IF k = 0 THEN [externalSimilarity |-> 0, source |-> <<>>]
  ELSE externalStep(externalScan(gram, corpusSets, k - 1),
                    jaccard(gram, corpusSets[k].set), corpusSets[k].name)

\* The loop over gramSets: the highest jaccard of sentence i with another sentence
internalScan(gramSets, i) ==
  GreatestOf({jaccard(gramSets[i], gramSets[j]) : j \in DOMAIN gramSets \ {i}}, 0)

\* Lines 273-282: the aiScore of a sentence from its features
aiScoreOf(ttr, stopR, awl, ent, syntaxComp, semCoherence, aiPatterns, academicBonus) ==
  Min2(Unit, Max2(0,
      Scale(Unit - ttr, 8, 100)
    + Scale(Abs(stopR - Scale(Unit, 4, 10)), 8, 100)
    + Scale(IF awl > Num(6) THEN Unit ELSE awl \div 6, 8, 100)
    + Scale(Unit - Min2(Unit, Abs(ent - Num(4)) \div 4), 6, 100)
    + Scale(syntaxComp, 6, 100)
    + Scale(Unit - semCoherence, 8, 100)
    + Scale(aiPatterns, 8, 100)
    - Scale(academicBonus, 6, 10)))

\* Lines 301-309: the plagiarismScore of a sentence of that length
plagiarismScoreOf(length, summed, academicBonus) ==
  Min2(Unit, IF length > 180 /\ academicBonus > Unit \div 2
             THEN Scale(summed, 135, 100) ELSE summed)

\* A disclosure that names the best-matching document for any positive
\* similarity, where the code asks for more than 0.25
sourceOfAnyMatch(ext) == IF ext.externalSimilarity > 0 THEN ext.source ELSE <<>>

\* Line 319: the source of a sentence from the result of the loop over corpusSets
sourceOf(ext) == IF ext.externalSimilarity > Scale(Unit, 25, 100) THEN ext.source ELSE <<>>

\* The scores of a sentence before the jitter, from its features
heuristicsRecord(sentence, ttr, stopR, awl, ent, syntaxComp, semCoherence, aiPatterns, plagPatterns, academicBonus, internalSimilarity, ext, stylometricScore) ==
  [sentence |-> sentence,
   aiScore |-> aiScoreOf(ttr, stopR, awl, ent, syntaxComp, semCoherence, aiPatterns,
                         academicBonus),
   plagiarismScore |->
     plagiarismScoreOf(Len(sentence),
                       Scale(internalSimilarity, 65, 10)
                         + Scale(ext.externalSimilarity, 82, 10)
                         + Scale(plagPatterns, 11, 1),
                       academicBonus),
   internalSimilarity |-> internalSimilarity,
   externalSimilarity |-> ext.externalSimilarity,
   source |-> sourceOf(ext),
   features |-> [lexicalDiversity |-> MathRound(Scale(ttr, 100, 1)),
                 syntacticComplexity |-> MathRound(Scale(syntaxComp, 100, 1)),
                 semanticCoherence |-> MathRound(Scale(semCoherence, 100, 1)),
                 stylometricScore |-> MathRound(Scale(stylometricScore, 100, 1))]]

\* The part of the body of sents.map(...) that draws no random number:
\* the scores of sentence i before the jitter
sentenceHeuristics(sents, sentWords, gramSets, corpusSets, stylometricScore, i) ==
  heuristicsRecord(sents[i],
                   uniqueRatio(sentWords[i]),
                   stopwordRatio(sentWords[i]),
                   avgWordLen(sentWords[i]),
                   charEntropy(sents[i]),
                   syntaxComplexity(sents[i]),
                   semanticCoherence(sents[i],
                                     IF i > 1 THEN << sents[i - 1] >> ELSE <<>>,
                                     IF i < Len(sents) THEN << sents[i + 1] >> ELSE <<>>),
                   detectAIPatterns(sents[i]),
                   detectPlagiarismPatterns(sents[i]),
                   Scale(hasAcademicFeatures(sents[i]), 8, 10),
                   internalScan(gramSets, i),
                   externalScan(gramSets[i], corpusSets, Len(corpusSets)),
                   stylometricScore)

\* A corpus preparation that falls back to a built-in reference document
\* ("the cat sat on the mat") where the code falls back to no document at all
corpusSetsWithDefault(corpus, n) ==
  IF corpus = <<>>
  THEN << [name |-> "builtin",
           set |-> ngrams(<<"the", "cat", "sat", "on", "the", "mat">>, n)] >>
  ELSE Tuple([k \in DOMAIN corpus |->
                [name |-> corpus[k].name, set |-> ngrams(words(corpus[k].text), n)]])

\* Lines 253-258: the n-gram sets of the corpus documents
corpusSetsOf(corpus, n) ==
  Tuple([k \in DOMAIN corpus |->
           [name |-> corpus[k].name, set |-> ngrams(words(corpus[k].text), n)]])

\* Lines 260-326 without the jitter, from the words of the sentences
wordsHeuristics(sents, sentWords, corpusSets, stylometricScore, n) ==
  Tuple([i \in DOMAIN sents |->
           sentenceHeuristics(sents, sentWords,
                              Tuple([j \in DOMAIN sentWords |-> ngrams(sentWords[j], n)]),
                              corpusSets, stylometricScore, i)])

\* Lines 239-326 without the jitter, from the sentences
sentencesHeuristics(sents, corpus, n) ==
  wordsHeuristics(sents, Tuple([i \in DOMAIN sents |-> words(sents[i])]),
                  corpusSetsOf(corpus, n), detectStylometricPatterns(sents), n)

\* The deterministic part of analyzeTextTraditional: lines 237-326 without the jitter
textHeuristics(text, opts) ==
  sentencesHeuristics(splitSentences(text), opts.corpus, ngramSize(opts))

(***************************************************************************)
(* Inputs: the texts, corpora and options that analyzeText is called with  *)
(***************************************************************************)

\* "" (0 characters)
EmptyText ==
  <<>>

\* " " (1 characters)
BlankText ==
  <<" ">>

\* "The cat sat on the mat. The cat sat on the mat." (47 characters)
CatText ==
  <<"T","h","e"," ","c","a","t"," ","s","a","t"," ","o","n"," ","t","h","e"," ","m","a","t",".",
    " ","T","h","e"," ","c","a","t"," ","s","a","t"," ","o","n"," ","t","h","e"," ","m","a","t",
    ".">>

\* "hello world" (11 characters)
PlainText ==
  <<"h","e","l","l","o"," ","w","o","r","l","d">>

\* "Studies show cats nap. We ran home." (35 characters)
CitedText ==
  <<"S","t","u","d","i","e","s"," ","s","h","o","w"," ","c","a","t","s"," ","n","a","p","."," ",
    "W","e"," ","r","a","n"," ","h","o","m","e",".">>

\* "In conclusion, it is worth noting figure 12. The quick brown..." (88 characters)
EssayText ==
  <<"I","n"," ","c","o","n","c","l","u","s","i","o","n",","," ","i","t"," ","i","s"," ","w","o",
    "r","t","h"," ","n","o","t","i","n","g"," ","f","i","g","u","r","e"," ","1","2","."," ","T",
    "h","e"," ","q","u","i","c","k"," ","b","r","o","w","n"," ","f","o","x"," ","j","u","m","p",
    "s"," ","o","v","e","r"," ","t","h","e"," ","d","o","g","."," ","G","o","!">>

\* "However, this study shows that the results indicate a trend;..." (207 characters)
LongText ==
  <<"H","o","w","e","v","e","r",","," ","t","h","i","s"," ","s","t","u","d","y"," ","s","h","o",
    "w","s"," ","t","h","a","t"," ","t","h","e"," ","r","e","s","u","l","t","s"," ","i","n","d",
    "i","c","a","t","e"," ","a"," ","t","r","e","n","d",";"," ","m","o","r","e","o","v","e","r",
    ","," ","a","c","c","o","r","d","i","n","g"," ","t","o"," ","t","h","e"," ","d","a","t","a",
    ","," ","t","h","e"," ","a","n","a","l","y","s","i","s"," ","s","h","o","w","s"," ","g","r",
    "o","w","t","h"," ","i","n"," ","m","o","s","t"," ","r","e","g","i","o","n","s",","," ","w",
    "h","i","c","h"," ","i","s"," ","c","o","n","s","i","s","t","e","n","t"," ","w","i","t","h",
    " ","t","h","e"," ","l","i","t","e","r","a","t","u","r","e"," ","a","n","d"," ","w","i","t",
    "h"," ","e","a","r","l","i","e","r"," ","w","o","r","k"," ","o","n"," ","c","a","t","s",".">>

\* "Go home. Go home." (17 characters)
EchoText ==
  <<"G","o"," ","h","o","m","e","."," ","G","o"," ","h","o","m","e",".">>

\* "A cat sat up high. A cat sat. The quick brown fox jumps over..." (69 characters)
NearText ==
  <<"A"," ","c","a","t"," ","s","a","t"," ","u","p"," ","h","i","g","h","."," ","A"," ","c","a",
    "t"," ","s","a","t","."," ","T","h","e"," ","q","u","i","c","k"," ","b","r","o","w","n"," ",
    "f","o","x"," ","j","u","m","p","s"," ","o","v","e","r"," ","t","h","e"," ","d","o","g",".">>

\* "We saw the quick brown cat nap while my old dog ran far off...." (81 characters)
BlendText ==
  <<"W","e"," ","s","a","w"," ","t","h","e"," ","q","u","i","c","k"," ","b","r","o","w","n"," ",
    "c","a","t"," ","n","a","p"," ","w","h","i","l","e"," ","m","y"," ","o","l","d"," ","d","o",
    "g"," ","r","a","n"," ","f","a","r"," ","o","f","f","."," ","T","h","e","n"," ","m","y"," ",
    "o","l","d"," ","d","o","g"," ","s","a","t",".">>

Texts ==
  {EmptyText, BlankText, CatText, PlainText, CitedText, EssayText, LongText, EchoText,
   NearText, BlendText}

\* opts.corpus: absent (|| []), or two reference documents
NoCorpus == <<>>

FoxCorpus == <<
  [name |-> "cats.txt",
   text |-> <<"a"," ","c","a","t"," ","s","a","t"," ","o","n"," ","t","h","e"," ","m","a","t">>],
  [name |-> "fox.txt",
   text |-> <<"t","h","e"," ","q","u","i","c","k"," ","b","r","o","w","n"," ","f","o","x"," ","j","u","m","p","s"," ","o","v","e","r"," ","t","h","e"," ","d","o","g">>] >>

Corpora == {NoCorpus, FoxCorpus}

\* opts.ngram: absent or 0 (written 0), or an arity
Ngrams == {0, 3}

Options == [corpus : Corpora, ngram : Ngrams, useML : BOOLEAN]

\* textHeuristics on every input, evaluated once
HeuristicsTable ==
  {[text |-> t, corpus |-> c, ngram |-> n,
    sentences |-> textHeuristics(t, [corpus |-> c, ngram |-> n])] :
      t \in Texts, c \in Corpora, n \in Ngrams}

heuristicsOf(text, opts) ==
  (CHOOSE e \in HeuristicsTable :
      e.text = text /\ e.corpus = opts.corpus /\ e.ngram = opts.ngram).sentences

(***************************************************************************)
(* DocumentAggregator                                                      *)
(***************************************************************************)

\* x / n for a fixed-point x and a count n; 0 / 0 is NaN
DivideBy(v, n) == IF IsNaN(v) \/ n = 0 THEN NaN ELSE v \div n

\* A document aggregation that takes the highest per-sentence value where the
\* code takes the rounded mean
documentScoresMax(sentences) ==
  LET top(vs) == IF vs = <<>> THEN NaN ELSE CHOOSE v \in Range(vs) : \A w \in Range(vs) : w <= v
  IN [aiScore |-> top([i \in DOMAIN sentences |-> sentences[i].ai]),
      plagiarism |-> top([i \in DOMAIN sentences |-> sentences[i].plagiarism]),
      confidence |-> top([i \in DOMAIN sentences |-> sentences[i].confidence])]

\* Lines 328-340: the document-level scores of a list of SentenceScore
documentScores(sentences) ==
  LET aiScores == [i \in DOMAIN sentences |-> sentences[i].ai]
      plagiarismScores == [i \in DOMAIN sentences |-> sentences[i].plagiarism]
      confidences == [i \in DOMAIN sentences |-> sentences[i].confidence]
  IN [aiScore |-> MathRound(DivideBy(SumNum(aiScores), Len(aiScores))),
      plagiarism |-> MathRound(DivideBy(SumNum(plagiarismScores), Len(plagiarismScores))),
      confidence |-> MathRound(DivideBy(SumNum(confidences), Len(sentences)))]

\* Lines 311-326: the SentenceScore of a sentence from its scores before the
\* jitter, with the generator in state r (three draws: ai, plagiarism, confidence)
sentenceScore(h, r) ==
  LET finalAIScore == randomVariation(Scale(h.aiScore, 100, 1), 2, 1, r)
      finalPlagiarismScore ==
        randomVariation(Scale(h.plagiarismScore, 100, 1), 5, 2, nextRandom(r))
  IN [sentence |-> h.sentence,
      ai |-> MathRound(finalAIScore),
      plagiarism |-> MathRound(finalPlagiarismScore),
      confidence |-> Num(70) + MathFloor(Scale(randomValue(afterDraws(r, 2)), 8, 1)),
      source |-> h.source,
      features |-> h.features]

\* Lines 343-364: the analysis block of the report
analysisOf(aiScore, plagiarism) ==
  [overallStyle |-> IF JsGt(aiScore, Num(14)) THEN "Potential AI-assisted content"
                                            ELSE "Likely human-written",
   suspiciousPatterns |->
     (IF JsGt(aiScore, Num(15)) THEN << "Moderate AI detection patterns" >> ELSE <<>>)
       \o (IF JsGt(plagiarism, Num(18)) THEN << "Potential plagiarism detected" >> ELSE <<>>),
   recommendations |->
     (IF JsGt(aiScore, Num(12)) THEN << "Verify content originality" >> ELSE <<>>)
       \o (IF JsGt(plagiarism, Num(15)) THEN << "Review citations and sources" >> ELSE <<>>)
       \o (IF JsLt(aiScore, Num(8)) /\ JsLt(plagiarism, Num(8))
           THEN << "Document appears to be original" >> ELSE <<>>),
   modelUsed |-> "Traditional Algorithm",
   processingTime |-> 0]

\* The LocalReport of a list of SentenceScore with those document-level scores
reportOf(sentences, doc) ==
  [aiScore |-> doc.aiScore,
   plagiarism |-> doc.plagiarism,
   confidence |-> doc.confidence,
   sentences |-> sentences,
   analysis |-> analysisOf(doc.aiScore, doc.plagiarism)]

\* Lines 328-364: the LocalReport of a list of SentenceScore
aggregateReport(sentences) == reportOf(sentences, documentScores(sentences))

\* A scoring that lists the sentences last to first, where sents.map keeps
\* the order of the segmenter
scoreSentencesReversed(hs, r) ==
  [report |->
     aggregateReport(Tuple([i \in DOMAIN hs |->
                              sentenceScore(hs[Len(hs) + 1 - i],
                                            afterDraws(r, 3 * (i - 1)))])),
   random |-> afterDraws(r, 3 * Len(hs))]

\* Lines 261-326 on the sentences' heuristics hs with the generator in state r
\* (three draws a sentence): the report and the state of the generator afterwards
scoreSentences(hs, r) ==
  [report |->
     aggregateReport(Tuple([i \in DOMAIN hs |->
                              sentenceScore(hs[i], afterDraws(r, 3 * (i - 1)))])),
   random |-> afterDraws(r, 3 * Len(hs))]

\* analyzeTextTraditional(text, opts) with the generator in state r:
\* the report and the state of the generator afterwards
analyzeTextTraditional(txt, o, r) == scoreSentences(heuristicsOf(txt, o), r)

(***************************************************************************)
(* MLFusion                                                                *)
(***************************************************************************)

\* A fusion that also overwrites each sentence's ai with the combined score,
\* where the code passes the heuristic sentences through
combineRescoringSentences(mlPrediction, trad, elapsed, r) ==
  LET heavy == JsGt(mlPrediction.confidence, Num(70))
      \* mlWeight is 0.3 or 0.15, traditionalWeight is 1 - mlWeight
      weighted == IF heavy
                  THEN Plus(Scale(mlPrediction.aiScore, 30, 100), Scale(trad.aiScore, 70, 100))
                  ELSE Plus(Scale(mlPrediction.aiScore, 15, 100), Scale(trad.aiScore, 85, 100))
      roundedAIScore == MathRound(Scale(weighted, 6, 10))
      roundedPlagiarism ==
        MathRound(Scale(Plus(Scale(mlPrediction.plagiarismScore, 3, 10),
                             Scale(trad.plagiarism, 7, 10)), 7, 10))
      combinedAIScore == randomVariation(roundedAIScore, 3, 2, r)
      combinedPlagiarism == randomVariation(roundedPlagiarism, 2, 1, nextRandom(r))
      combinedConfidence ==
        MathRound(Plus(Scale(mlPrediction.confidence, 2, 10), Scale(trad.confidence, 8, 10)))
  IN [report |->
        [aiScore |-> MathMin(Num(26), combinedAIScore),
         plagiarism |-> MathMin(Num(26), combinedPlagiarism),
         confidence |-> combinedConfidence,
         sentences |-> [i \in DOMAIN trad.sentences |->
                        [trad.sentences[i] EXCEPT !.ai = MathMin(Num(26), combinedAIScore)]],
         analysis |-> [trad.analysis EXCEPT !.modelUsed = "Hybrid ML/Traditional",
                                            !.processingTime = elapsed]],
      random |-> afterDraws(r, 2)]

\* combineMLAndTraditional with the generator in state r (two draws);
\* elapsed is Date.now() - startTime
combineMLAndTraditional(mlPrediction, trad, elapsed, r) ==
  LET heavy == JsGt(mlPrediction.confidence, Num(70))
      \* mlWeight is 0.3 or 0.15, traditionalWeight is 1 - mlWeight
      weighted == IF heavy
                  THEN Plus(Scale(mlPrediction.aiScore, 30, 100), Scale(trad.aiScore, 70, 100))
                  ELSE Plus(Scale(mlPrediction.aiScore, 15, 100), Scale(trad.aiScore, 85, 100))
      roundedAIScore == MathRound(Scale(weighted, 6, 10))
      roundedPlagiarism ==
        MathRound(Scale(Plus(Scale(mlPrediction.plagiarismScore, 3, 10),
                             Scale(trad.plagiarism, 7, 10)), 7, 10))
      combinedAIScore == randomVariation(roundedAIScore, 3, 2, r)
      combinedPlagiarism == randomVariation(roundedPlagiarism, 2, 1, nextRandom(r))
      combinedConfidence ==
        MathRound(Plus(Scale(mlPrediction.confidence, 2, 10), Scale(trad.confidence, 8, 10)))
  IN [report |->
        [aiScore |-> MathMin(Num(26), combinedAIScore),
         plagiarism |-> MathMin(Num(26), combinedPlagiarism),
         confidence |-> combinedConfidence,
         sentences |-> trad.sentences,
         analysis |-> [trad.analysis EXCEPT !.modelUsed = "Hybrid ML/Traditional",
                                            !.processingTime = elapsed]],
      random |-> afterDraws(r, 2)]

(***************************************************************************)
(* analyzeText as a state machine                                          *)
(***************************************************************************)

VARIABLES
  pc,           \* where the one analyzeText call stands: "idle", "awaitML", "done"
  input,        \* the arguments of the call: [text, opts]
  mlPromise,    \* the promise of aiDetectionModel.predict(text): [state, value]
  random,       \* the state of Math.random
  traditional,  \* the local traditionalAnalysis of the ML branch, once assigned
  returned,     \* the LocalReport the call resolved to, once it has
  scored,       \* a list of SentenceScore handed to the aggregation alone
  aggregate,    \* the document-level scores computed from scored
  page,         \* the Report page: [stage, report, text, groups, matches]
  regexes,      \* the module-level pattern lists: [lastIndex, first, last, again]
  mlModel,      \* the aiDetectionModel singleton and the calls in progress on it
  segments,     \* a text handed to the segmenters alone: [text, sentences, twoPass]
  scan,         \* a sentence's n-gram set scanned against a corpus alone
  probe         \* a pair of feature vectors scored alone

vars == << pc, input, mlPromise, random, traditional, returned, scored, aggregate, page, regexes, mlModel, segments, scan, probe >>

\* Date.now() - startTime is at most MaxElapsed in the model
MaxElapsed == 1

\* What predict can resolve to: a well-formed prediction, ...
MLPredictions ==
  [aiScore : {Num(0), Num(100)},
   plagiarismScore : {Num(0), Num(100)},
   confidence : {Num(60), Num(90)}]

\* ... or an object that lacks the numeric fields (undefined reads as NaN in arithmetic)
MalformedPrediction == [aiScore |-> NaN, plagiarismScore |-> NaN, confidence |-> NaN]

NoInput == [text |-> <<>>, opts |-> [corpus |-> <<>>, ngram |-> 0, useML |-> FALSE]]

NoPromise == [state |-> "none", value |-> <<>>]

\* The pattern lists as the module loads them: every lastIndex is 0, no
\* sentence was scored
FreshRegexes ==
  [lastIndex |-> [ai |-> [k \in DOMAIN AI_PATTERNS |-> 0],
                  plagiarism |-> [k \in DOMAIN PLAGIARISM_PATTERNS |-> 0]],
   first |-> {},
   last |-> <<>>,
   again |-> FALSE]

\* The singleton as the module creates it: nothing loaded, no call in progress
\* At most MaxCalls calls of initialize and predict are made on the singleton
MaxCalls == 2

\* The singleton after construction, lines 36-38: no pipeline (0 stands for
\* null, k for the k-th pipeline that was loaded), not initialized, no call
\* made; loaded counts the pipelines that finished loading and used records
\* the value of each pipeline a predict call has called
UnloadedModel ==
  [initialized |-> FALSE, classifier |-> 0, embedder |-> 0,
   loaded |-> [classifier |-> 0, embedder |-> 0],
   used |-> {},
   calls |-> [c \in 1..MaxCalls |-> [kind |-> "none", pc |-> "idle"]]]

\* No scan of a corpus alone
NoScan == [gram |-> {}, corpusSets |-> <<>>, all |-> <<>>, short |-> <<>>]

\* No feature vectors scored alone
NoProbe == <<>>

\* No text was handed to the segmenters alone
NoSegments == [text |-> <<>>, sentences |-> <<>>, twoPass |-> <<>>]

\* No Report page is open
NoPage ==
  [stage |-> "none", report |-> <<>>, text |-> <<>>, groups |-> <<>>, matches |-> <<>>,
   parts |-> <<>>]

Init ==
  /\ pc = "idle"
  /\ input = NoInput
  /\ mlPromise = NoPromise
  /\ random \in 0..(RandMod - 1)
  /\ traditional = <<>>
  /\ returned = <<>>
  /\ scored = <<>>
  /\ aggregate = <<>>
  /\ page = NoPage
  /\ regexes = FreshRegexes
  /\ mlModel = UnloadedModel
  /\ segments = NoSegments
  /\ scan = NoScan
  /\ probe = NoProbe

\* analyzeText(text, opts) up to its first await: with useML false the call
\* runs analyzeTextTraditional and resolves; otherwise predict is called and
\* the call waits for it
AnalyzeCall(txt, o) ==
  /\ pc = "idle"
  /\ input' = [text |-> txt, opts |-> o]
  /\ traditional' = <<>>
  /\ IF o.useML
     THEN /\ pc' = "awaitML"
          /\ mlPromise' = [state |-> "pending", value |-> <<>>]
          /\ UNCHANGED << random, returned >>
     ELSE \E res \in {analyzeTextTraditional(txt, o, random)} :
             /\ pc' = "done"
             /\ mlPromise' = NoPromise
             /\ returned' = << res.report >>
             /\ random' = res.random
  /\ UNCHANGED << scored, aggregate, page, regexes, mlModel, segments, scan, probe >>

\* The ML collaborator resolves predict with a prediction
MLFulfil(p) ==
  /\ mlPromise.state = "pending"
  /\ mlPromise' = [state |-> "fulfilled", value |-> << p >>]
  /\ UNCHANGED << pc, input, random, traditional, returned, scored, aggregate, page, regexes, mlModel, segments, scan, probe >>

\* The ML collaborator resolves predict with undefined
MLFulfilUndefined ==
  /\ mlPromise.state = "pending"
  /\ mlPromise' = [state |-> "fulfilled", value |-> <<>>]
  /\ UNCHANGED << pc, input, random, traditional, returned, scored, aggregate, page, regexes, mlModel, segments, scan, probe >>

\* The ML collaborator rejects predict
MLReject ==
  /\ mlPromise.state = "pending"
  /\ mlPromise' = [state |-> "rejected", value |-> <<>>]
  /\ UNCHANGED << pc, input, random, traditional, returned, scored, aggregate, page, regexes, mlModel, segments, scan, probe >>

\* The continuation of analyzeText after the await, lines 194-198.  first is the
\* run of analyzeTextTraditional that comes first: line 198 when the await
\* throws, line 195 otherwise
AnalyzeResume(elapsed) ==
  /\ pc = "awaitML"
  /\ mlPromise.state \in {"fulfilled", "rejected"}
  /\ pc' = "done"
  /\ \E first \in {analyzeTextTraditional(input.text, input.opts, random)} :
       IF mlPromise.state = "rejected"
       THEN \* the await throws: catch, then line 198
            /\ traditional' = <<>>
            /\ returned' = << first.report >>
            /\ random' = first.random
       ELSE IF mlPromise.value = <<>>
       THEN \* reading mlPrediction.confidence throws a TypeError: catch, then line 198
            \E res \in {analyzeTextTraditional(input.text, input.opts, first.random)} :
               /\ traditional' = << first.report >>
               /\ returned' = << res.report >>
               /\ random' = res.random
       ELSE \E res \in {combineMLAndTraditional(mlPromise.value[1], first.report,
                                                elapsed, first.random)} :
               /\ traditional' = << first.report >>
               /\ returned' = << res.report >>
               /\ random' = res.random
  /\ UNCHANGED << input, mlPromise, scored, aggregate, page, regexes, mlModel, segments, scan, probe >>

\* The caller takes the report; the next call can start
Return ==
  /\ pc = "done"
  /\ pc' = "idle"
  /\ input' = NoInput
  /\ mlPromise' = NoPromise
  /\ traditional' = <<>>
  /\ returned' = <<>>
  /\ UNCHANGED << random, scored, aggregate, page, regexes, mlModel, segments, scan, probe >>

Next ==
  \/ \E txt \in Texts : \E o \in Options : AnalyzeCall(txt, o)
  \/ \E p \in MLPredictions \cup {MalformedPrediction} : MLFulfil(p)
  \/ MLFulfilUndefined
  \/ MLReject
  \/ \E elapsed \in 0..MaxElapsed : AnalyzeResume(elapsed)
  \/ Return

Spec == Init /\ [][Next]_vars

\* The event loop runs the continuation of a settled await and the caller takes
\* a resolved report; nothing obliges the ML collaborator to settle its promise
FairSpec ==
  Spec /\ WF_vars(\E elapsed \in 0..MaxElapsed : AnalyzeResume(elapsed)) /\ WF_vars(Return)

(***************************************************************************)
(* The aggregation alone, on arbitrary lists of SentenceScore              *)
(***************************************************************************)

\* Longest list of SentenceScore handed to the aggregation alone
MaxScored == 10

LowScore == [ai |-> Num(5), plagiarism |-> Num(0), confidence |-> Num(70)]

HighScore == [ai |-> Num(95), plagiarism |-> Num(95), confidence |-> Num(77)]

ScoredLists == UNION {[1..n -> {LowScore, HighScore}] : n \in 0..MaxScored}

InitAggregate ==
  /\ pc = "idle"
  /\ input = NoInput
  /\ mlPromise = NoPromise
  /\ random = 0
  /\ traditional = <<>>
  /\ returned = <<>>
  /\ scored \in ScoredLists
  /\ aggregate = <<>>
  /\ page = NoPage
  /\ regexes = FreshRegexes
  /\ mlModel = UnloadedModel
  /\ segments = NoSegments
  /\ scan = NoScan
  /\ probe = NoProbe

Aggregate ==
  /\ aggregate = <<>>
  /\ aggregate' = << documentScores(scored) >>
  /\ UNCHANGED << pc, input, mlPromise, random, traditional, returned, scored, page, regexes, mlModel, segments, scan, probe >>

NextAggregate == Aggregate

SpecAggregate == InitAggregate /\ [][NextAggregate]_vars

(***************************************************************************)
(* The Report page: highlight selection (pages/Report.tsx)                 *)
(***************************************************************************)

\* The members of a set of indexes, least first
ascending(S) ==
  Tuple([k \in 1..Cardinality(S) |-> CHOOSE i \in S : Cardinality({j \in S : j < i}) = k - 1])

\* The elements of arr at the indexes idx, in the order of idx
pickAt(arr, idx) == Tuple([k \in DOMAIN idx |-> arr[idx[k]]])

\* uniq: Array.from(new Set(arr.filter(Boolean))), the non-empty strings of
\* arr without repetition, each at its first position
uniq(arr) ==
  pickAt(arr, ascending({i \in DOMAIN arr :
                           arr[i] # <<>> /\ \A j \in 1..(i - 1) : arr[j] # arr[i]}))

\* sentences.filter(s => s.<field> >= threshold).map(s => s.sentence)
\* (NaN >= threshold is false)
textsAtLeast(texts, values, threshold) ==
  pickAt(texts, ascending({i \in DOMAIN values : values[i] >= threshold}))

\* [...sentences].sort((a, b) => b.<field> - a.<field>): the indexes of the
\* sentences, highest value first, equal values in their order (the sort is
\* stable; the values are numbers)
sortedDescending(values) ==
  Tuple([k \in DOMAIN values |->
           CHOOSE i \in DOMAIN values :
             Cardinality({j \in DOMAIN values :
                            values[j] > values[i] \/ (values[j] = values[i] /\ j < i)}) = k - 1])

\* Math.max(1, Math.ceil(length * 0.1)): length * 0.1 is the double nearest to
\* length / 10, which is the integer itself when length is a multiple of 10
topCount(length) == Max2(1, (length + 9) \div 10)

\* terms, or the fallback when terms.length === 0
orElse(terms, fallback) == IF terms # <<>> THEN terms ELSE fallback

\* The three tiers of lines 53-60 and 63-70: >= high, else >= low, else the
\* top 10% when there is a sentence (.slice(0, topCount) of the sorted sentences)
tieredTerms(texts, values, high, low) ==
  orElse(uniq(textsAtLeast(texts, values, high)),
         orElse(uniq(textsAtLeast(texts, values, low)),
                IF Len(texts) > 0
                THEN uniq(pickAt(texts, SubSeq(sortedDescending(values), 1,
                                               Min2(Len(texts), topCount(Len(texts))))))
                ELSE <<>>))

sentenceTexts(sentences) == Tuple([i \in DOMAIN sentences |-> sentences[i].sentence])

\* A selection with the single tier of the first revision of the page: >= 70
aiTermsStrongOnly(report) ==
  textsAtLeast(sentenceTexts(report.sentences),
               Tuple([i \in DOMAIN report.sentences |-> report.sentences[i].ai]), Num(70))

\* Lines 53-60: aiTerms
aiTerms(report) ==
  tieredTerms(sentenceTexts(report.sentences),
              Tuple([i \in DOMAIN report.sentences |-> report.sentences[i].ai]),
              Num(70), Num(50))

\* A selection that ignores the document-level plagiarism
plgTermsOfSentencesOnly(report) ==
  tieredTerms(sentenceTexts(report.sentences),
              Tuple([i \in DOMAIN report.sentences |-> report.sentences[i].plagiarism]),
              Num(50), Num(40))

\* Lines 63-74: plgTerms
plgTerms(report) ==
  IF ~IsNaN(report.plagiarism) /\ report.plagiarism <= 0 THEN <<>>
  ELSE tieredTerms(sentenceTexts(report.sentences),
                   Tuple([i \in DOMAIN report.sentences |-> report.sentences[i].plagiarism]),
                   Num(50), Num(40))

\* Lines 76-79: groups
highlightGroups(report) ==
  << [terms |-> aiTerms(report), className |-> "mark-ai"],
     [terms |-> plgTerms(report), className |-> "mark-plagiarism"] >>

(***************************************************************************)
(* HighlightedText (components/HighlightedText.tsx, lines 1-98)            *)
(***************************************************************************)

\* Lines 35-36: groups.flatMap(...), the terms of each group trimmed and the
\* empty ones dropped, each with the class of its group
RECURSIVE groupedTokens(_)
groupedTokens(groups) ==
  IF groups = <<>> THEN <<>>
  ELSE Tuple([k \in DOMAIN filterBoolean(trimAll(Head(groups).terms)) |->
                [term |-> filterBoolean(trimAll(Head(groups).terms))[k],
                 className |-> Head(groups).className]])
         \o groupedTokens(Tail(groups))

\* Line 39: arr.sort((a, b) => b.term.length - a.term.length)
sortTokens(arr) ==
  pickAt(arr, sortedDescending(Tuple([k \in DOMAIN arr |-> Len(arr[k].term)])))

\* Lines 30-40: tokens, when the page passes groups and no highlights
tokensOf(groups) == sortTokens(groupedTokens(groups))

\* Lines 71-74: the class of a mark
dynClass(className) ==
  IF className = "mark-ai" THEN "mark-ai decoration-blue-500"
  ELSE IF className = "mark-plagiarism" THEN "mark-plagiarism decoration-red-500"
  ELSE className

\* pattern.exec(text) with lastIndex = from - 1 for the pattern of a term
\* (flags g and i, the term escaped): the position of the first occurrence at
\* or after from, whatever the case of the letters, or Len(text) + 1.
\* low is the text and lowTerm the term in lowercase.
execFrom(low, lowTerm, from) ==
  FirstOf({q \in from..(Len(low) - Len(lowTerm) + 1) :
             SubSeq(low, q, q + Len(lowTerm) - 1) = lowTerm}, Len(low))

RECURSIVE scanTerm(_, _, _, _, _)

\* A loop body that pushes every occurrence, where the code skips an
\* occurrence that covers a used character
scanAtIgnoringUsed(low, lowTerm, cls, p, st) ==
  IF p > Len(low) THEN st
  ELSE scanTerm(low, lowTerm, cls, p + Len(lowTerm),
                [used |-> st.used \cup (p - 1)..(p + Len(lowTerm) - 2),
                 matches |-> Append(st.matches,
                                    [start |-> p - 1, end |-> p - 1 + Len(lowTerm),
                                     cls |-> cls])])

\* Lines 64-75: the body of the while loop for the occurrence at position p
\* (index p - 1), or the end of the loop when exec returned null; st is
\* [used, matches].  The text of a match is text.slice(start, end).
scanAt(low, lowTerm, cls, p, st) ==
  IF p > Len(low) THEN st
  ELSE scanTerm(low, lowTerm, cls, p + Len(lowTerm),
                IF st.used \cap (p - 1)..(p + Len(lowTerm) - 2) # {} THEN st
                ELSE [used |-> st.used \cup (p - 1)..(p + Len(lowTerm) - 2),
                      matches |-> Append(st.matches,
                                         [start |-> p - 1, end |-> p - 1 + Len(lowTerm),
                                          cls |-> cls])])

\* Lines 61-76: the while loop of one token, from lastIndex = from - 1
scanTerm(low, lowTerm, cls, from, st) ==
  scanAt(low, lowTerm, cls, execFrom(low, lowTerm, from), st)

\* Lines 60-77: the loop over the first k tokens
RECURSIVE scanTokens(_, _, _)
scanTokens(low, tokens, k) ==
  IF k = 0 THEN [used |-> {}, matches |-> <<>>]
  ELSE scanTerm(low, toLowerCase(tokens[k].term), dynClass(tokens[k].className), 1,
                scanTokens(low, tokens, k - 1))

\* Line 79: matches.sort((a, b) => a.start - b.start)
sortMatches(matches) ==
  pickAt(matches, sortedDescending(Tuple([k \in DOMAIN matches |-> 0 - matches[k].start])))

\* Lines 48-79: the matches that become marks, none when the text or the
\* tokens are empty
matchesOf(text, tokens) ==
  IF text = <<>> \/ tokens = <<>> THEN <<>>
  ELSE sortMatches(scanTokens(toLowerCase(text), tokens, Len(tokens)).matches)

(***************************************************************************)
(* The Report page on arbitrary reports                                    *)
(***************************************************************************)

\* Longest list of sentences drawn freely, and the length of the long lists
\* (more than ten sentences, so that the top 10% is more than one sentence)
MaxPageSentences == 3

LongPageLength == 11

\* "Go on.", "Go." and "So go on."
PageSentenceTexts ==
  { <<"G","o"," ","o","n",".">>, <<"G","o",".">>, <<"S","o"," ","g","o"," ","o","n",".">> }

\* The sentences of a report: one of the texts with ai and plagiarism at
\* 75 and 60, 55 and 45, 30 and 20 or 10 and 0
PageScores ==
  {[sentence |-> t, ai |-> v[1], plagiarism |-> v[2]] :
     t \in PageSentenceTexts,
     v \in {<<Num(75), Num(60)>>, <<Num(55), Num(45)>>, <<Num(30), Num(20)>>,
            <<Num(10), Num(0)>>}}

LowPageScores ==
  { [sentence |-> <<"G","o",".">>, ai |-> Num(30), plagiarism |-> Num(20)],
    [sentence |-> <<"G","o"," ","o","n",".">>, ai |-> Num(10), plagiarism |-> Num(0)] }

\* location.state.report: the document-level plagiarism and the sentences
PageReports ==
  {[plagiarism |-> p, sentences |-> ss] :
     p \in {Num(0), Num(35)},
     ss \in UNION {[1..n -> PageScores] : n \in 0..MaxPageSentences}
              \cup [1..LongPageLength -> LowPageScores]}

\* location.state.text: the analysed text, its sentences one space apart
RECURSIVE textOfSentences(_)
textOfSentences(sentences) ==
  IF sentences = <<>> THEN <<>>
  ELSE IF Len(sentences) = 1 THEN Head(sentences).sentence
  ELSE Head(sentences).sentence \o <<" ">> \o textOfSentences(Tail(sentences))

InitReport ==
  /\ pc = "idle"
  /\ input = NoInput
  /\ mlPromise = NoPromise
  /\ random = 0
  /\ traditional = <<>>
  /\ returned = <<>>
  /\ scored = <<>>
  /\ aggregate = <<>>
  /\ page \in {[stage |-> "state", report |-> rp, text |-> textOfSentences(rp.sentences),
                groups |-> <<>>, matches |-> <<>>, parts |-> <<>>] : rp \in PageReports}
  /\ regexes = FreshRegexes
  /\ mlModel = UnloadedModel
  /\ segments = NoSegments
  /\ scan = NoScan
  /\ probe = NoProbe

\* Report renders: lines 48-79 of pages/Report.tsx
ReportRender ==
  /\ page.stage = "state"
  /\ page' = [page EXCEPT !.stage = "groups", !.groups = highlightGroups(page.report)]
  /\ UNCHANGED << pc, input, mlPromise, random, traditional, returned, scored, aggregate, regexes, mlModel, segments, scan, probe >>

\* HighlightedText renders with text and groups (line 129 of pages/Report.tsx)
\* A rendering that leaves out the text between the marks
RECURSIVE partsWithoutGaps(_, _, _, _)
partsWithoutGaps(text, matches, k, lastIndex) ==
  IF k > Len(matches) THEN <<>>
  ELSE << [kind |-> "mark",
           text |-> SubSeq(text, matches[k].start + 1, matches[k].end)] >>
       \o partsWithoutGaps(text, matches, k + 1, matches[k].end)

\* Lines 81-93: the parts pushed for the matches k.. with lastIndex as it is
\* before match k: the text before the mark if there is any, the mark, and
\* after the last mark the rest of the text if there is any
RECURSIVE partsOf(_, _, _, _)
partsOf(text, matches, k, lastIndex) ==
  IF k > Len(matches)
  THEN (IF lastIndex < Len(text)
        THEN << [kind |-> "span", text |-> SubSeq(text, lastIndex + 1, Len(text))] >>
        ELSE <<>>)
  ELSE (IF matches[k].start > lastIndex
        THEN << [kind |-> "span", text |-> SubSeq(text, lastIndex + 1, matches[k].start)] >>
        ELSE <<>>)
       \o << [kind |-> "mark",
              text |-> SubSeq(text, matches[k].start + 1, matches[k].end)] >>
       \o partsOf(text, matches, k + 1, matches[k].end)

\* What HighlightedText returns: the text in one span when there is no text
\* or no token (line 48), the parts otherwise
renderedParts(text, tokens, matches) ==
  IF text = <<>> \/ tokens = <<>> THEN << [kind |-> "span", text |-> text] >>
  ELSE partsOf(text, matches, 1, 0)

HighlightRender ==
  /\ page.stage = "groups"
  /\ \E found \in {matchesOf(page.text, tokensOf(page.groups))} :
       page' = [page EXCEPT !.stage = "marks",
                            !.matches = found,
                            !.parts = renderedParts(page.text, tokensOf(page.groups), found)]
  /\ UNCHANGED << pc, input, mlPromise, random, traditional, returned, scored, aggregate, regexes, mlModel, segments, scan, probe >>

NextReport == ReportRender \/ HighlightRender

SpecReport == InitReport /\ [][NextReport]_vars

(***************************************************************************)
(* The module-level pattern lists between calls                            *)
(***************************************************************************)

\* A detection with pattern.test(sentence), as the earlier revision of the
\* detector has it: test on a global pattern searches from lastIndex, leaves
\* lastIndex after the match it finds and resets it to 0 when it finds none
testGlobal(s, pat, lastIndex) ==
  LET hit == FirstOf({k \in (lastIndex + 1)..Len(s) : MatchLenAt(s, k, pat) > 0}, Len(s))
  IN IF hit > Len(s) THEN [count |-> 0, lastIndex |-> 0]
     ELSE [count |-> 1, lastIndex |-> hit - 1 + MatchLenAt(s, hit, pat)]

\* sentence.match(pattern) on a global pattern whose lastIndex is given: match
\* sets lastIndex to 0, runs exec until it fails, which leaves lastIndex at 0;
\* the result has one element for each match
matchGlobal(s, pat, lastIndex) == [count |-> matchCount(s, 1, pat), lastIndex |-> 0]

\* The reduce over a pattern list (lines 140-148): for each pattern the number
\* of matches and the lastIndex it is left with
matchLibrary(s, lib, lastIndex) ==
  Tuple([k \in DOMAIN lib |-> matchGlobal(s, lib[k], lastIndex[k])])

\* The sentences scored in this part: those of four of the texts
PatternSentences ==
  Range(splitSentences(EssayText)) \cup Range(splitSentences(CitedText))
    \cup Range(splitSentences(EchoText)) \cup Range(splitSentences(NearText))

InitPatterns ==
  /\ pc = "idle"
  /\ input = NoInput
  /\ mlPromise = NoPromise
  /\ random = 0
  /\ traditional = <<>>
  /\ returned = <<>>
  /\ scored = <<>>
  /\ aggregate = <<>>
  /\ page = NoPage
  /\ regexes = FreshRegexes
  /\ mlModel = UnloadedModel
  /\ segments = NoSegments
  /\ scan = NoScan
  /\ probe = NoProbe

\* detectAIPatterns(s) and detectPlagiarismPatterns(s) as the sents.map of
\* any call runs them (lines 269-270).  first keeps the scores of each
\* sentence the first time it is scored, last the latest scores, again
\* whether the latest sentence had been scored before.
ScoreSentence(s) ==
  \E ai \in {matchLibrary(s, AI_PATTERNS, regexes.lastIndex.ai)} :
    \E plg \in {matchLibrary(s, PLAGIARISM_PATTERNS, regexes.lastIndex.plagiarism)} :
      \E now \in {[sentence |-> s,
                   aiPatterns |-> Scale(Num(SumSeq([k \in DOMAIN ai |-> ai[k].count])), 8, 10),
                   plagPatterns |-> Num(SumSeq([k \in DOMAIN plg |-> plg[k].count]))]} :
        /\ regexes' =
             [lastIndex |-> [ai |-> [k \in DOMAIN ai |-> ai[k].lastIndex],
                             plagiarism |-> [k \in DOMAIN plg |-> plg[k].lastIndex]],
              first |-> IF \E f \in regexes.first : f.sentence = s
                        THEN regexes.first ELSE regexes.first \cup {now},
              last |-> << now >>,
              again |-> \E f \in regexes.first : f.sentence = s]
        /\ UNCHANGED << pc, input, mlPromise, random, traditional, returned, scored,
                        aggregate, page, mlModel, segments, scan, probe >>

NextPatterns == \E s \in PatternSentences : ScoreSentence(s)

SpecPatterns == InitPatterns /\ [][NextPatterns]_vars

(***************************************************************************)
(* The DOCX preview: applyHighlightsToContainer on one text node           *)
(***************************************************************************)

\* lower.indexOf(tok.term.toLowerCase(), cursor), Len(low) when there is none
idxOf(low, tok, cursor) == execFrom(low, toLowerCase(tok.term), cursor + 1) - 1

\* The for loop over the tokens: the token of the best match from cursor on,
\* the earliest one, the longest of those that start there, the first of the
\* list among equals; 0 when no token occurs
bestToken(low, tokens, cursor) ==
  LET found == {k \in DOMAIN tokens : idxOf(low, tokens[k], cursor) < Len(low)}
  IN IF found = {} THEN 0
     ELSE CHOOSE k \in found :
            \A j \in found :
              \/ idxOf(low, tokens[k], cursor) < idxOf(low, tokens[j], cursor)
              \/ /\ idxOf(low, tokens[k], cursor) = idxOf(low, tokens[j], cursor)
                 /\ \/ Len(tokens[k].term) > Len(tokens[j].term)
                    \/ Len(tokens[k].term) = Len(tokens[j].term) /\ k <= j

\* The while loop from cursor on: the marks of the text node
RECURSIVE docxMarks(_, _, _)
docxMarks(low, tokens, cursor) ==
  LET k == bestToken(low, tokens, cursor)
  IN IF cursor >= Len(low) \/ k = 0 THEN <<>>
     ELSE << [start |-> idxOf(low, tokens[k], cursor),
              end |-> idxOf(low, tokens[k], cursor) + Len(tokens[k].term),
              cls |-> tokens[k].className] >>
            \o docxMarks(low, tokens, idxOf(low, tokens[k], cursor) + Len(tokens[k].term))

\* applyHighlightsToContainer on a paragraph whose one text node is the text
DocxHighlight ==
  /\ page.stage = "groups"
  /\ page' = [page EXCEPT !.stage = "docx",
                          !.matches = docxMarks(toLowerCase(page.text),
                                                tokensOf(page.groups), 0)]
  /\ UNCHANGED << pc, input, mlPromise, random, traditional, returned, scored, aggregate,
                  regexes, mlModel, segments, scan, probe >>

(***************************************************************************)
(* HighlightedText on arbitrary texts and terms                            *)
(***************************************************************************)

\* Longest text and longest list of terms handed to HighlightedText alone
MaxHighlightText == 6

MaxHighlightTerms == 3

\* The terms "a", "ba", "aba" and "bab"
TermPool == { <<"a">>, <<"b","a">>, <<"a","b","a">>, <<"b","a","b">> }

\* The lists of different terms, split between the two groups at each place
HighlightGroups ==
  UNION {{<< [terms |-> SubSeq(ts, 1, k), className |-> "mark-ai"],
             [terms |-> SubSeq(ts, k + 1, Len(ts)), className |-> "mark-plagiarism"] >> :
            k \in 0..Len(ts)} :
         ts \in {us \in UNION {[1..n -> TermPool] : n \in 0..MaxHighlightTerms} :
                   \A i, j \in DOMAIN us : i # j => us[i] # us[j]}}

\* The props of the component: a text of a and b, and the groups
InitHighlight ==
  /\ pc = "idle"
  /\ input = NoInput
  /\ mlPromise = NoPromise
  /\ random = 0
  /\ traditional = <<>>
  /\ returned = <<>>
  /\ scored = <<>>
  /\ aggregate = <<>>
  /\ page \in {[stage |-> "groups", report |-> <<>>, text |-> t, groups |-> g,
                matches |-> <<>>, parts |-> <<>>] :
                 t \in UNION {[1..n -> {"a", "b"}] : n \in 0..MaxHighlightText},
                 g \in HighlightGroups}
  /\ regexes = FreshRegexes
  /\ mlModel = UnloadedModel
  /\ segments = NoSegments
  /\ scan = NoScan
  /\ probe = NoProbe

NextHighlight == HighlightRender \/ DocxHighlight

SpecHighlight == InitHighlight /\ [][NextHighlight]_vars

(***************************************************************************)
(* The segmenters alone, on every short text over SegmentChars             *)
(***************************************************************************)

MaxSegmentText == 5

SegmentChars == {"a", "B", " ", ".", "|"}

RECURSIVE textsUpTo(_)
textsUpTo(n) ==
  IF n = 0 THEN {<<>>}
  ELSE textsUpTo(n - 1)
       \cup {Append(t, c) : t \in {u \in textsUpTo(n - 1) : Len(u) = n - 1}, c \in SegmentChars}

InitSegments ==
  /\ pc = "idle"
  /\ input = NoInput
  /\ mlPromise = NoPromise
  /\ random = 0
  /\ traditional = <<>>
  /\ returned = <<>>
  /\ scored = <<>>
  /\ aggregate = <<>>
  /\ page = NoPage
  /\ regexes = FreshRegexes
  /\ mlModel = UnloadedModel
  /\ scan = NoScan
  /\ probe = NoProbe
  /\ segments \in {[text |-> t, sentences |-> << "none" >>, twoPass |-> << "none" >>] :
                      t \in textsUpTo(MaxSegmentText)}

\* splitSentences(text) of lib/localDetector.ts
SplitSentences ==
  /\ segments.sentences = << "none" >>
  /\ segments' = [segments EXCEPT !.sentences = splitSentences(segments.text)]
  /\ UNCHANGED << pc, input, mlPromise, random, traditional, returned, scored,
                  aggregate, page, regexes, mlModel, scan, probe >>

\* splitSentences(text) of the revision that avoids the lookbehind
SplitSentencesTwoPass ==
  /\ segments.twoPass = << "none" >>
  /\ segments' = [segments EXCEPT !.twoPass = splitSentencesTwoPass(segments.text)]
  /\ UNCHANGED << pc, input, mlPromise, random, traditional, returned, scored,
                  aggregate, page, regexes, mlModel, scan, probe >>

NextSegments == SplitSentences \/ SplitSentencesTwoPass

SpecSegments == InitSegments /\ [][NextSegments]_vars

(***************************************************************************)
(* The scan of the corpus alone, on n-gram sets large enough for a         *)
(* similarity strictly between 0.98 and 1                                  *)
(***************************************************************************)

GramCount == 50

MaxScanCorpus == 3

\* The n-gram sets of the corpus documents: the sentence itself, the sentence
\* and one more n-gram, half of the sentence, nothing of the sentence
ScanDocs ==
  { [name |-> "same", set |-> 1..GramCount],
    [name |-> "longer", set |-> 1..(GramCount + 1)],
    [name |-> "half", set |-> 1..(GramCount \div 2)],
    [name |-> "other", set |-> (GramCount + 1)..(GramCount + 2)] }

\* The corpora of at most n documents with distinct names
RECURSIVE scanCorpora(_)
scanCorpora(n) ==
  IF n = 0 THEN {<<>>}
  ELSE scanCorpora(n - 1)
       \cup {Append(c, d) : c \in {u \in scanCorpora(n - 1) : Len(u) = n - 1},
                            d \in ScanDocs}

\* The loop over corpusSets with `if (bestExt > 0.98) break`: the running
\* [externalSimilarity, source] after the first k corpus documents
RECURSIVE externalScanShort(_, _, _)
shortStep(before, gram, cs) ==
  IF before.externalSimilarity > Scale(Num(1), 98, 100) THEN before
  ELSE externalStep(before, jaccard(gram, cs.set), cs.name)

externalScanShort(gram, corpusSets, k) ==
  IF k = 0 THEN [externalSimilarity |-> 0, source |-> <<>>]
  ELSE shortStep(externalScanShort(gram, corpusSets, k - 1), gram, corpusSets[k])

InitScan ==
  /\ pc = "idle"
  /\ input = NoInput
  /\ mlPromise = NoPromise
  /\ random = 0
  /\ traditional = <<>>
  /\ returned = <<>>
  /\ scored = <<>>
  /\ aggregate = <<>>
  /\ page = NoPage
  /\ regexes = FreshRegexes
  /\ mlModel = UnloadedModel
  /\ segments = NoSegments
  /\ probe = NoProbe
  /\ scan \in {[gram |-> 1..GramCount, corpusSets |-> c, all |-> <<>>, short |-> <<>>] :
                  c \in {u \in scanCorpora(MaxScanCorpus) :
                           \A i, j \in DOMAIN u : u[i].name = u[j].name => i = j}}

\* The scan of lib/localDetector.ts: every corpus document is compared
ScanAll ==
  /\ scan.all = <<>>
  /\ scan' = [scan EXCEPT !.all =
                 << externalScan(scan.gram, scan.corpusSets, Len(scan.corpusSets)) >>]
  /\ UNCHANGED << pc, input, mlPromise, random, traditional, returned, scored,
                  aggregate, page, regexes, mlModel, segments, probe >>

\* The scan of the revision that stops on a match above 0.98
ScanShort ==
  /\ scan.short = <<>>
  /\ scan' = [scan EXCEPT !.short =
                 << externalScanShort(scan.gram, scan.corpusSets, Len(scan.corpusSets)) >>]
  /\ UNCHANGED << pc, input, mlPromise, random, traditional, returned, scored,
                  aggregate, page, regexes, mlModel, segments, probe >>

NextScan == ScanAll \/ ScanShort

SpecScan == InitScan /\ [][NextScan]_vars

(***************************************************************************)
(* AIDetectionModel.predict: the prediction the ML collaborator computes   *)
(***************************************************************************)

\* c is matched by the separator of a split: \s, [.!?] or \W
InClass(c, class) ==
  CASE class = "space" -> IsSpace(c)
    [] class = "terminal" -> c \in {".", "!", "?"}
    [] OTHER -> ~IsWordChar(c)

RECURSIVE classRun(_, _, _)
classRun(s, i, class) ==
  IF i <= Len(s) /\ InClass(s[i], class) THEN 1 + classRun(s, i + 1, class) ELSE 0

\* s.split(/\s+/), s.split(/[.!?]+/), s.split(/\W+/): the pieces of s from
\* position `from` on, empty ones included
RECURSIVE splitRuns(_, _, _)
RECURSIVE splitRunsAt(_, _, _, _)
splitRuns(s, from, class) ==
  splitRunsAt(s, from, FirstOf({j \in from..Len(s) : InClass(s[j], class)}, Len(s)), class)

\* ... when the next separator starts at position i (Len(s) + 1: there is none)
splitRunsAt(s, from, i, class) ==
  IF i > Len(s) THEN << SubSeq(s, from, Len(s)) >>
  ELSE << SubSeq(s, from, i - 1) >> \o splitRuns(s, i + classRun(s, i, class), class)

\* text.split(/[.!?]+/).filter(s => s.trim())
RECURSIVE filterNonBlank(_)
filterNonBlank(pieces) ==
  IF pieces = <<>> THEN <<>>
  ELSE (IF trim(Head(pieces)) # <<>> THEN << Head(pieces) >> ELSE <<>>)
       \o filterNonBlank(Tail(pieces))

modelSentences(text) == filterNonBlank(splitRuns(text, 1, "terminal"))

\* Number of occurrences in ws of the word at position i
wordFreq(ws, i) == Cardinality({k \in DOMAIN ws : ws[k] = ws[i]})

\* Math.pow(2, e) for e in [0, 8]: the inverse of Log2Table, interpolated
\* between the entries k and k + 1 with Log2Table[k] <= e < Log2Table[k + 1]
pow2At(e, k) ==
  IF k >= Len(Log2Table) THEN Num(Len(Log2Table))
  ELSE Num(k) + ((e - Log2Table[k]) * Unit) \div (Log2Table[k + 1] - Log2Table[k])

pow2(e) == pow2At(e, Cardinality({k \in DOMAIN Log2Table : Log2Table[k] <= e}))

\* entropy = -(sum over the words of log2(freq / n)) / n of the words ws
wordEntropy(ws) ==
  Log2Table[Len(ws)] - SumSeq([i \in DOMAIN ws |-> Log2Table[wordFreq(ws, i)]]) \div Len(ws)

calculatePerplexity(text) == pow2(wordEntropy(splitRuns(toLowerCase(text), 1, "space")))

\* Math.sqrt of a fixed-point number: the integer root of x * 100, times 10
RECURSIVE rootIn(_, _, _)
rootIn(x, lo, hi) ==
  IF lo >= hi THEN lo
  ELSE IF ((lo + hi + 1) \div 2) * ((lo + hi + 1) \div 2) <= x
       THEN rootIn(x, (lo + hi + 1) \div 2, hi)
       ELSE rootIn(x, lo, (lo + hi + 1) \div 2 - 1)

MathSqrt(x) == rootIn(x * 100, 0, 46340) * 10

\* (stdDev - mean) / (stdDev + mean)
burstinessRatio(stdDev, mean) == ((stdDev - mean) * 100) \div ((stdDev + mean) \div 100)

burstinessAround(lengths, mean) ==
  burstinessRatio(
    MathSqrt(SumSeq([i \in DOMAIN lengths |-> Square(lengths[i] - mean)]) \div Len(lengths)),
    mean)

burstinessOf(lengths) ==
  IF Len(lengths) < 2 THEN 0
  ELSE burstinessAround(lengths, SumSeq(lengths) \div Len(lengths))

\* sentences.map(s => s.split(/\s+/).length)
sentenceLengths(sentences) ==
  [i \in DOMAIN sentences |-> Num(splitSpaceCount(sentences[i]))]

calculateBurstiness(text) == burstinessOf(sentenceLengths(modelSentences(text)))

\* Math.max(0, Math.min(100, v))
clamp100(v) == Max2(Num(0), Min2(Num(100), v))

combineAIScores(perplexity, burstiness) ==
  MathRound(Scale(clamp100(Num(100) - (perplexity - Unit) * 20), 4, 10)
            + Scale(clamp100((Unit - Abs(burstiness)) * 100), 6, 10))

\* Math.round((1 - variance) * 100), variance the mean squared distance to 0.5
\* of |perplexity - 5| / 5 and |burstiness|
calculateConfidence(perplexity, burstiness) ==
  MathRound((Unit - (Square(Abs(perplexity - Num(5)) \div 5 - Unit \div 2)
                     + Square(Abs(burstiness) - Unit \div 2)) \div 2) * 100)

\* text.toLowerCase().split(/\W+/).filter(Boolean)
modelWords(text) == filterBoolean(splitRuns(toLowerCase(text), 1, "nonword"))

vocabularyDiversityOf(ws) == Ratio(Cardinality(Range(ws)), Max2(1, Len(ws)))

vocabularyDiversity(text) == vocabularyDiversityOf(modelWords(text))

avgSentenceLengthOf(wordCount, sentenceCount) ==
  IF sentenceCount # 0 THEN Ratio(wordCount, sentenceCount) ELSE Num(wordCount)

avgSentenceLength(text) ==
  avgSentenceLengthOf(Len(splitRuns(text, 1, "space")), Len(modelSentences(text)))

repetitionRateOf(ws) ==
  IF Len(ws) # 0
  THEN Ratio(Cardinality({w \in Range(ws) : Cardinality({k \in DOMAIN ws : ws[k] = w}) > 1}),
             Len(ws))
  ELSE 0

repetitionRate(text) == repetitionRateOf(modelWords(text))

\* The patterns of AIDetectionModel.detectPlagiarismPatterns, 25 a match
MODEL_PLAGIARISM_PATTERNS == <<
  Pat(<<"according to research", "studies show", "research indicates">>, "nocite"),
  Special("etal"),
  Special("definition"),
  Pat(<<"as stated by", "as mentioned by", "according to">>, "b") >>

modelPlagiarismPatterns(text) ==
  Min2(Num(100), Num(25 * libraryMatches(text, MODEL_PLAGIARISM_PATTERNS)))

\* The patterns of fallbackPrediction
FALLBACK_AI_PATTERNS == <<
  Pat(<<"furthermore", "moreover", "additionally", "consequently", "therefore", "thus">>, "b"),
  Pat(<<"it is important to note", "it should be noted", "it is worth noting">>, "b"),
  Pat(<<"in conclusion", "to conclude", "in summary", "to summarize">>, "b"),
  Pat(<<"utilize", "implement", "facilitate", "optimize", "streamline">>, "b") >>

FALLBACK_PLAGIARISM_PATTERNS == <<
  Pat(<<"according to research", "studies show", "research indicates">>, "b"),
  Special("etal") >>

fallbackPrediction(text) ==
  [aiScore |-> MathRound(clamp100(
                 Scale(Num(8 * libraryMatches(text, FALLBACK_AI_PATTERNS)), 7, 10) + Num(26))),
   plagiarismScore |-> MathRound(clamp100(
                 Scale(Num(10 * libraryMatches(text, FALLBACK_PLAGIARISM_PATTERNS)), 5, 10) + Num(20))),
   confidence |-> Num(60)]

\* The sum of lines 159-164: aiScore before the noise
aiSum(text, coherence) ==
  Scale(combineAIScores(calculatePerplexity(text), calculateBurstiness(text)), 5, 10)
  + (Unit - vocabularyDiversity(text)) * 20
  + Scale(Max2(0, avgSentenceLength(text) - Num(20)), 8, 10)
  + Max2(0, Num(5) - avgWordLen(filterBoolean(splitRuns(text, 1, "space")))) * 2
  + repetitionRate(text) * 20
  + (IF coherence < Scale(Num(1), 4, 10) THEN Num(8) ELSE 0)

\* Lines 168-175: the weighted pattern, semantic and paraphrase scores; the
\* last two are 0, TRAINING_DATASET being empty
plagiarismSum(text) == Scale(modelPlagiarismPatterns(text), 3, 10)

\* score + (Math.random() - 0.5) * 4, then Math.max(0, Math.min(100, base + score * 0.7))
noisy(base, score, r) ==
  clamp100(Num(base) + Scale(score + (randomValue(r) - Unit \div 2) * 4, 7, 10))

\* if (score > 90) score = 88 + Math.random() * 4
centreHigh(score, r) ==
  IF score > Num(90) THEN Num(88) + randomValue(r) * 4 ELSE score

\* if (score < 8) score = Math.random() * 8
centreLow(score, r) ==
  IF score < Num(8) THEN randomValue(r) * 8 ELSE score

\* The generator after a draw made only when the test holds
drawIf(test, r) == IF test THEN nextRandom(r) ELSE r

\* Lines 178-181 on the scores ai and plg with the generator in state r
centred(ai, plg, r) ==
  [aiScore |->
     centreLow(centreHigh(ai, r),
               drawIf(plg > Num(90), drawIf(ai > Num(90), r))),
   plagiarismScore |->
     centreLow(centreHigh(plg, drawIf(ai > Num(90), r)),
               drawIf(centreHigh(ai, r) < Num(8),
                      drawIf(plg > Num(90), drawIf(ai > Num(90), r)))),
   random |->
     drawIf(centreHigh(plg, drawIf(ai > Num(90), r)) < Num(8),
            drawIf(centreHigh(ai, r) < Num(8),
                   drawIf(plg > Num(90), drawIf(ai > Num(90), r))))]

\* The ModelPrediction of lines 183-186 from the scores after lines 178-181
roundedPrediction(scores, confidence) ==
  [aiScore |-> MathRound(scores.aiScore),
   plagiarismScore |-> MathRound(scores.plagiarismScore),
   confidence |-> confidence,
   random |-> scores.random]

\* The ModelPrediction of the try block of predict with the generator in
\* state r, and the state of the generator after it
mlPrediction(text, coherence, r) ==
  roundedPrediction(
    centred(noisy(12, aiSum(text, coherence), r),
            noisy(10, plagiarismSum(text), nextRandom(r)),
            nextRandom(nextRandom(r))),
    calculateConfidence(calculatePerplexity(text), calculateBurstiness(text)))

\* analyzeText is waiting for aiDetectionModel.predict(text)
InitPredict ==
  /\ pc = "awaitML"
  /\ input \in {[text |-> t, opts |-> o] : t \in Texts, o \in {q \in Options : q.useML}}
  /\ mlPromise = [state |-> "pending", value |-> <<>>]
  /\ random \in 0..(RandMod - 1)
  /\ traditional = <<>>
  /\ returned = <<>>
  /\ scored = <<>>
  /\ aggregate = <<>>
  /\ page = NoPage
  /\ regexes = FreshRegexes
  /\ mlModel = UnloadedModel
  /\ segments = NoSegments
  /\ scan = NoScan
  /\ probe = NoProbe

\* predict, lines 142-202: the pipelines load and answer; coherence is what
\* analyzeSemanticCoherence makes of the embedder's answer
PredictML(coherence) ==
  /\ mlPromise.state = "pending"
  /\ \E p \in {mlPrediction(input.text, coherence, random)} :
       /\ mlPromise' = [state |-> "fulfilled",
                        value |-> << [aiScore |-> p.aiScore,
                                      plagiarismScore |-> p.plagiarismScore,
                                      confidence |-> p.confidence] >>]
       /\ random' = p.random
  /\ UNCHANGED << pc, input, traditional, returned, scored, aggregate, page, regexes,
                  mlModel, segments, scan, probe >>

\* predict, lines 203-206: the classifier or the embedder throws
PredictFallback ==
  /\ mlPromise.state = "pending"
  /\ mlPromise' = [state |-> "fulfilled", value |-> << fallbackPrediction(input.text) >>]
  /\ UNCHANGED << pc, input, random, traditional, returned, scored, aggregate, page,
                  regexes, mlModel, segments, scan, probe >>

\* predict, lines 143-145: initialize throws, a pipeline failing to load twice
PredictReject ==
  /\ mlPromise.state = "pending"
  /\ mlPromise' = [state |-> "rejected", value |-> <<>>]
  /\ UNCHANGED << pc, input, random, traditional, returned, scored, aggregate, page,
                  regexes, mlModel, segments, scan, probe >>

NextPredict ==
  \/ \E coherence \in {Scale(Num(1), 2, 10), Scale(Num(1), 5, 10)} : PredictML(coherence)
  \/ PredictFallback
  \/ PredictReject

SpecPredict == InitPredict /\ [][NextPredict]_vars

(***************************************************************************)
(* The AI score of a sentence alone, on pairs of feature vectors that      *)
(* differ in one feature                                                   *)
(***************************************************************************)

\* The features of a sentence, each at a low and at a high value; stopR, awl
\* and ent, which no direction is named for, at one value
FeatureVectors ==
  [ttr : {Scale(Unit, 3, 10), Scale(Unit, 9, 10)},
   stopR : {Scale(Unit, 4, 10)},
   awl : {Num(4)},
   ent : {Num(4)},
   syntaxComp : {Scale(Unit, 2, 10), Scale(Unit, 8, 10)},
   semCoherence : {Scale(Unit, 2, 10), Scale(Unit, 8, 10)},
   aiPatterns : {Num(0), Num(1)},
   academicBonus : {Num(0), Scale(Scale(Unit, 7, 10), 8, 10)}]

\* The features a direction is named for
DirectedFeatures == {"ttr", "syntaxComp", "semCoherence", "aiPatterns", "academicBonus"}

\* let aiScore = ... of lines 271-282 on a feature vector
aiScoreOfFeatures(f) ==
  aiScoreOf(f.ttr, f.stopR, f.awl, f.ent, f.syntaxComp, f.semCoherence, f.aiPatterns,
            f.academicBonus)

InitProbe ==
  /\ pc = "idle"
  /\ input = NoInput
  /\ mlPromise = NoPromise
  /\ random = 0
  /\ traditional = <<>>
  /\ returned = <<>>
  /\ scored = <<>>
  /\ aggregate = <<>>
  /\ page = NoPage
  /\ regexes = FreshRegexes
  /\ mlModel = UnloadedModel
  /\ segments = NoSegments
  /\ scan = NoScan
  /\ probe \in {[lower |-> f, higher |-> g, feature |-> d, scores |-> <<>>] :
                   f \in FeatureVectors,
                   g \in FeatureVectors,
                   d \in DirectedFeatures} 
  /\ probe.lower[probe.feature] < probe.higher[probe.feature]
  /\ \A d \in DOMAIN probe.lower :
        d # probe.feature => probe.lower[d] = probe.higher[d]

\* The AI score of the two sentences
ScoreFeatures ==
  /\ probe # NoProbe
  /\ probe.scores = <<>>
  /\ probe' = [probe EXCEPT !.scores = << aiScoreOfFeatures(probe.lower),
                                          aiScoreOfFeatures(probe.higher) >>]
  /\ UNCHANGED << pc, input, mlPromise, random, traditional, returned, scored,
                  aggregate, page, regexes, mlModel, segments, scan >>

NextProbe == ScoreFeatures

SpecProbe == InitProbe /\ [][NextProbe]_vars

(***************************************************************************)
(* AIDetectionModel.initialize and predict: concurrent calls on the        *)
(* singleton, one action per run of code between two awaits                *)
(***************************************************************************)

InitModel ==
  /\ pc = "idle"
  /\ input = NoInput
  /\ mlPromise = NoPromise
  /\ random = 0
  /\ traditional = <<>>
  /\ returned = <<>>
  /\ scored = <<>>
  /\ aggregate = <<>>
  /\ page = NoPage
  /\ regexes = FreshRegexes
  /\ mlModel = UnloadedModel
  /\ segments = NoSegments
  /\ scan = NoScan
  /\ probe = NoProbe

\* The model after call c has moved to position to
at(m, c, to) == [m EXCEPT !.calls[c].pc = to]

\* initialize has returned in call c: checkModelStatus is done, predict
\* resumes after its await
initializeReturned(m, c) ==
  at(m, c, IF m.calls[c].kind = "predict" THEN "initialized" ELSE "done")

\* initialize() up to its first await, lines 41-46: nothing to do once
\* initialized, otherwise the classifier starts to load
initializeCalled(m, c) ==
  IF m.initialized THEN initializeReturned(m, c) ELSE at(m, c, "loadClassifier")

\* predict from line 146 on, up to the await of the classifier: the fallback
\* when not initialized, otherwise this.classifier!(text) is called
predictResumed(m, c) ==
  IF ~m.initialized THEN at(m, c, "done")
  ELSE [at(m, c, "classify") EXCEPT !.used = @ \cup {m.classifier}]

\* checkModelStatus calls initialize(); analyzeText calls predict(text), which
\* calls initialize() unless the model is initialized
Call(c, kind) ==
  /\ mlModel.calls[c].pc = "idle"
  /\ \A b \in 1..(c - 1) : mlModel.calls[b].pc # "idle"
  /\ \E m \in {[mlModel EXCEPT !.calls[c].kind = kind]} :
       mlModel' = IF kind = "predict" /\ m.initialized
                  THEN predictResumed(m, c)
                  ELSE initializeCalled(m, c)
  /\ UNCHANGED << pc, input, mlPromise, random, traditional, returned, scored,
                  aggregate, page, regexes, segments, scan, probe >>

\* Lines 43-46 and 54: the classifier has loaded and is assigned, the embedder
\* starts to load
ClassifierLoaded(c) ==
  /\ mlModel.calls[c].pc \in {"loadClassifier", "reloadClassifier"}
  /\ mlModel' =
       [at(mlModel, c, IF mlModel.calls[c].pc = "loadClassifier"
                       THEN "loadEmbedder" ELSE "reloadEmbedder")
          EXCEPT !.classifier = mlModel.loaded.classifier + 1,
                 !.loaded.classifier = @ + 1]
  /\ UNCHANGED << pc, input, mlPromise, random, traditional, returned, scored,
                  aggregate, page, regexes, segments, scan, probe >>

\* Lines 47-51 and 55-56: the embedder has loaded and is assigned, initialized
\* is set and initialize returns
EmbedderLoaded(c) ==
  /\ mlModel.calls[c].pc \in {"loadEmbedder", "reloadEmbedder"}
  /\ mlModel' =
       initializeReturned([mlModel EXCEPT !.embedder = mlModel.loaded.embedder + 1,
                                          !.loaded.embedder = @ + 1,
                                          !.initialized = TRUE], c)
  /\ UNCHANGED << pc, input, mlPromise, random, traditional, returned, scored,
                  aggregate, page, regexes, segments, scan, probe >>

\* Lines 52-54: a pipeline fails to load in the try block; the catch block
\* loads the classifier again
LoadFailed(c) ==
  /\ mlModel.calls[c].pc \in {"loadClassifier", "loadEmbedder"}
  /\ mlModel' = at(mlModel, c, "reloadClassifier")
  /\ UNCHANGED << pc, input, mlPromise, random, traditional, returned, scored,
                  aggregate, page, regexes, segments, scan, probe >>

\* A pipeline fails to load in the catch block: initialize throws, and so does
\* the predict that awaits it
ReloadFailed(c) ==
  /\ mlModel.calls[c].pc \in {"reloadClassifier", "reloadEmbedder"}
  /\ mlModel' = at(mlModel, c, "failed")
  /\ UNCHANGED << pc, input, mlPromise, random, traditional, returned, scored,
                  aggregate, page, regexes, segments, scan, probe >>

\* predict resumes after await this.initialize(), lines 146-151
PredictResumed(c) ==
  /\ mlModel.calls[c].pc = "initialized"
  /\ mlModel' = predictResumed(mlModel, c)
  /\ UNCHANGED << pc, input, mlPromise, random, traditional, returned, scored,
                  aggregate, page, regexes, segments, scan, probe >>

\* The classifier has answered, line 152: this.embedder!(text, ...) is called
Classified(c) ==
  /\ mlModel.calls[c].pc = "classify"
  /\ mlModel' = [at(mlModel, c, "embed") EXCEPT !.used = @ \cup {mlModel.embedder}]
  /\ UNCHANGED << pc, input, mlPromise, random, traditional, returned, scored,
                  aggregate, page, regexes, segments, scan, probe >>

\* The embedder has answered and predict returns its prediction, or a pipeline
\* throws and predict returns the fallback, lines 153-210
Predicted(c) ==
  /\ mlModel.calls[c].pc \in {"classify", "embed"}
  /\ mlModel' = at(mlModel, c, "done")
  /\ UNCHANGED << pc, input, mlPromise, random, traditional, returned, scored,
                  aggregate, page, regexes, segments, scan, probe >>

NextModel ==
  \E c \in 1..MaxCalls :
    \/ \E kind \in {"initialize", "predict"} : Call(c, kind)
    \/ ClassifierLoaded(c)
    \/ EmbedderLoaded(c)
    \/ LoadFailed(c)
    \/ ReloadFailed(c)
    \/ PredictResumed(c)
    \/ Classified(c)
    \/ Predicted(c)

SpecModel == InitModel /\ [][NextModel]_vars

(***************************************************************************)
(* Properties                                                              *)
(***************************************************************************)

\* v is an integer of [0,100]
IsScore(v) == ~IsNaN(v) /\ v % Unit = 0 /\ Num(0) <= v /\ v <= Num(100)

\* The call has resolved on the heuristic-only path (useML false, or the catch)
HeuristicOnly == pc = "done" /\ returned[1].analysis.modelUsed = "Traditional Algorithm"

\* The call has resolved on the hybrid path
Hybrid == pc = "done" /\ returned[1].analysis.modelUsed = "Hybrid ML/Traditional"

\* predict resolved to a prediction whose fields are numbers of [0,100]
WellFormedML ==
  mlPromise.state = "fulfilled" /\ mlPromise.value # <<>> /\ mlPromise.value[1] \in MLPredictions

\* predict failed: it rejected, or resolved to no or to a malformed prediction
FailedML ==
  \/ mlPromise.state = "rejected"
  \/ mlPromise.state = "fulfilled" /\ ~WellFormedML

\* The value at position k (from 1) of the ascending sort of the sequence xs
SortedAt(xs, k) ==
  CHOOSE v \in Range(xs) :
    /\ Cardinality({i \in DOMAIN xs : xs[i] < v}) < k
    /\ k <= Cardinality({i \in DOMAIN xs : xs[i] <= v})

\* The positions (from 1) of a list of n sorted values that a 90th to 95th
\* percentile can name: floor(q (n - 1)) + 1, floor(q n) + 1 and ceil(q n)
PercentilePositions(n) ==
  {k \in 1..n : \E q \in 90..95 :
      k \in {(q * (n - 1)) \div 100 + 1,
             Min2(n, (q * n) \div 100 + 1),
             Max2(1, (q * n + 99) \div 100)}}

\* C1: every returned report, heuristic-only or hybrid with a well-formed
\* prediction, has integer aiScore, plagiarism and confidence in [0,100], and
\* so has each of its sentences.
C1_ScoresAreIntegersInRange ==
  (pc = "done" /\ (mlPromise.state \in {"none", "rejected"} \/ WellFormedML)) =>
     /\ IsScore(returned[1].aiScore)
     /\ IsScore(returned[1].plagiarism)
     /\ IsScore(returned[1].confidence)
     /\ \A i \in DOMAIN returned[1].sentences :
          /\ IsScore(returned[1].sentences[i].ai)
          /\ IsScore(returned[1].sentences[i].plagiarism)
          /\ IsScore(returned[1].sentences[i].confidence)

\* C2: a text that segments into zero sentences gets, from the heuristic
\* analysis, an empty sentence list and aiScore = plagiarism = confidence = 0.
C2_EmptyDocumentScoresZero ==
  (HeuristicOnly /\ splitSentences(input.text) = <<>>) =>
     /\ returned[1].sentences = <<>>
     /\ returned[1].aiScore = Num(0)
     /\ returned[1].plagiarism = Num(0)
     /\ returned[1].confidence = Num(0)

\* C3: when the ML collaborator failed, the call resolves to a heuristic-only
\* report of the same text (modelUsed names the heuristic path) with scores in [0,100].
C3_FallbackOnMLFailure ==
  (pc = "done" /\ FailedML) =>
     /\ returned[1].analysis.modelUsed = "Traditional Algorithm"
     /\ Len(returned[1].sentences) = Len(splitSentences(input.text))
     /\ IsScore(returned[1].aiScore)
     /\ IsScore(returned[1].plagiarism)
     /\ IsScore(returned[1].confidence)

\* C4: a call that waits for the ML collaborator eventually resolves, also
\* when predict never settles.
C4_AnalysisEventuallyReturns == (pc = "awaitML") ~> (pc = "done")

\* C5: on the hybrid path every SentenceScore has the sentence, ai, plagiarism,
\* confidence and source that the heuristic analysis produced for that index.
C5_HybridKeepsSentenceScores ==
  Hybrid =>
     /\ Len(returned[1].sentences) = Len(traditional[1].sentences)
     /\ \A i \in DOMAIN traditional[1].sentences :
          /\ returned[1].sentences[i].sentence = traditional[1].sentences[i].sentence
          /\ returned[1].sentences[i].ai = traditional[1].sentences[i].ai
          /\ returned[1].sentences[i].plagiarism = traditional[1].sentences[i].plagiarism
          /\ returned[1].sentences[i].confidence = traditional[1].sentences[i].confidence
          /\ returned[1].sentences[i].source = traditional[1].sentences[i].source

\* A hybrid report of two or more sentences whose document-level aiScore
\* differs from the heuristic one
C5_Witness ==
  /\ Hybrid
  /\ WellFormedML
  /\ Len(returned[1].sentences) >= 2
  /\ returned[1].aiScore # traditional[1].aiScore

\* C6: the hybrid aiScore and plagiarism are each w_h * heuristic + w_ml * ML
\* (rounded or not) for weights, in percent, that are the same for every
\* prediction and have w_h >= w_ml.
C6_FixedWeightBlend ==
  (Hybrid /\ WellFormedML) =>
     /\ \E wh \in 0..100 : \E wml \in 0..wh : \A p \in MLPredictions :
          LET blend == Plus(Scale(traditional[1].aiScore, wh, 100), Scale(p.aiScore, wml, 100))
          IN combineMLAndTraditional(p, traditional[1], 0, random).report.aiScore
               \in {blend, MathRound(blend)}
     /\ \E wh \in 0..100 : \E wml \in 0..wh : \A p \in MLPredictions :
          LET blend == Plus(Scale(traditional[1].plagiarism, wh, 100),
                            Scale(p.plagiarismScore, wml, 100))
          IN combineMLAndTraditional(p, traditional[1], 0, random).report.plagiarism
               \in {blend, MathRound(blend)}

\* The plain ai values of the aggregated list
ScoredAI == [i \in DOMAIN scored |-> scored[i].ai]

\* C7: for a non-empty sentence list the document aiScore is the integer
\* nearest to the arithmetic mean of the per-sentence ai values; one sentence
\* at 95 and nine at 5 give 14.
C7_AIScoreIsRoundedMean ==
  (aggregate # <<>> /\ scored # <<>>) =>
     /\ IsScore(aggregate[1].aiScore)
     /\ 2 * Abs(Len(scored) * (aggregate[1].aiScore \div Unit) - SumSeq(ScoredAI) \div Unit)
          <= Len(scored)
     /\ (Len(scored) = 10 /\ Cardinality({i \in DOMAIN scored : scored[i] = HighScore}) = 1)
          => aggregate[1].aiScore = Num(14)

\* The aggregation has run on ten sentences, one at ai = 95 and nine at ai = 5
C7_Witness ==
  /\ aggregate # <<>>
  /\ Len(scored) = 10
  /\ Cardinality({i \in DOMAIN scored : scored[i].ai = Num(95)}) = 1
  /\ Cardinality({i \in DOMAIN scored : scored[i].ai = Num(5)}) = 9
  /\ aggregate[1].aiScore = Num(14)

\* C8: on the heuristic path the document plagiarism is the value at a 90th to
\* 95th percentile position of the ascending-sorted per-sentence plagiarism values.
C8_PlagiarismIsHighPercentile ==
  (HeuristicOnly /\ returned[1].sentences # <<>>) =>
     LET values == [i \in DOMAIN returned[1].sentences |-> returned[1].sentences[i].plagiarism]
     IN returned[1].plagiarism
          \in {SortedAt(values, k) : k \in PercentilePositions(Len(values))}

\* C9: when exactly one sentence has the high plagiarism value and all the
\* others have 0, the document plagiarism is that high value.
C9_SinglePlagiarizedSentenceDominates ==
  (/\ aggregate # <<>>
   /\ Cardinality({i \in DOMAIN scored : scored[i].plagiarism = HighScore.plagiarism}) = 1
   /\ \A i \in DOMAIN scored : scored[i].plagiarism \in {HighScore.plagiarism, Num(0)})
     => aggregate[1].plagiarism = HighScore.plagiarism

\* C10: "The cat sat on the mat. The cat sat on the mat." yields two sentences,
\* each with internal similarity at or near 1.0, and document plagiarism near 100.
C10_DuplicatedSentenceScenario ==
  (pc = "done" /\ input.text = CatText) =>
     /\ Len(returned[1].sentences) = 2
     /\ \A i \in 1..2 :
          heuristicsOf(input.text, input.opts)[i].internalSimilarity >= Scale(Unit, 99, 100)
     /\ ~IsNaN(returned[1].plagiarism)
     /\ returned[1].plagiarism >= Num(90)

\* The heuristics of the sentences of the text under analysis
inputHeuristics == heuristicsOf(input.text, input.opts)

\* C11: in every analysed document, two sentences at distinct indexes whose
\* texts are character-for-character identical each have an internal
\* similarity of at least 0.99, whatever the number of tokens in the sentence
C11_IdenticalSentencesAreSimilar ==
  pc = "done" =>
    \A i, j \in DOMAIN inputHeuristics :
      (i # j /\ inputHeuristics[i].sentence = inputHeuristics[j].sentence)
        => inputHeuristics[i].internalSimilarity >= Scale(Num(1), 99, 100)

\* C12: when the reference corpus is empty or not supplied, no SentenceScore
\* of the returned report has a source, on the heuristic and on the hybrid path
C12_NoCorpusNoSource ==
  (pc = "done" /\ input.opts.corpus = NoCorpus) =>
    \A i \in DOMAIN returned[1].sentences : returned[1].sentences[i].source = <<>>

\* A finished analysis without corpus of a text whose sentences match a
\* reference document when one is supplied
C12_Witness ==
  /\ pc = "done"
  /\ input.text = CatText
  /\ input.opts.corpus = NoCorpus
  /\ Len(returned[1].sentences) = 2
  /\ returned[1].sentences[1].source = <<>>
  /\ heuristicsOf(CatText, [input.opts EXCEPT !.corpus = FoxCorpus])[1].source
       = << "cats.txt" >>

firstOccurrence(text, seg, from) ==
  GreatestOf({0 - p : p \in {q \in from..(Len(text) - Len(seg) + 1) :
                                SubSeq(text, q, q + Len(seg) - 1) = seg}}, 0) * (0 - 1)

\* The segments k..Len(segs) occur in text one after the other from position from on
RECURSIVE occurInOrder(_, _, _, _)
occurInOrder(text, segs, k, from) ==
  \/ k > Len(segs)
  \/ /\ firstOccurrence(text, segs[k], from) # 0
     /\ occurInOrder(text, segs, k + 1,
                     firstOccurrence(text, segs[k], from) + Len(segs[k]))

\* The output of the segmenter on the text under analysis
inputSegments == splitSentences(input.text)

\* C14: in every report, heuristic or hybrid, sentences has the length of the
\* segmenter's output, sentences[i].sentence is the i-th segment, and the
\* segments occur in the source text from left to right in that order
C14_SentenceOrderPreserved ==
  pc = "done" =>
    /\ Len(returned[1].sentences) = Len(inputSegments)
    /\ \A i \in DOMAIN inputSegments :
         returned[1].sentences[i].sentence = inputSegments[i]
    /\ occurInOrder(input.text, inputSegments, 1, 1)

\* A hybrid report of three different sentences
C14_Witness ==
  /\ Hybrid
  /\ input.text = EssayText
  /\ Len(returned[1].sentences) = 3
  /\ returned[1].sentences[1].sentence # returned[1].sentences[3].sentence
  /\ returned[1].sentences[3].sentence = <<"G", "o", "!">>

\* C15: scoring is deterministic: any other run of the heuristic analysis on
\* the same text, corpus and options (whatever the state of Math.random)
\* returns the same per-sentence ai, plagiarism and confidence and the same
\* document-level scores as the run that was returned
C15_ScoringIsDeterministic ==
  HeuristicOnly =>
    \A r \in 0..(RandMod - 1) :
      scoreSentences(inputHeuristics, r).report = returned[1]

\* C16: an n-gram arity outside the supported range 4..7 is rejected before
\* any sentence is processed: no analysis is ever computed or returned for it
C16_NgramArityOutOfRangeRejected ==
  (input.opts.ngram # 0 /\ input.opts.ngram \notin 4..7) =>
    (traditional = <<>> /\ returned = <<>>)

\* The Report page has computed its highlight groups
GroupsComputed == page.stage \in {"groups", "marks"}

C19_MarksAreDisjoint ==
  page.stage = "marks" =>
    /\ \A a \in DOMAIN page.matches :
         /\ 0 <= page.matches[a].start
         /\ page.matches[a].start < page.matches[a].end
         /\ page.matches[a].end <= Len(page.text)
    /\ \A a, b \in DOMAIN page.matches :
         a # b => \/ page.matches[a].end <= page.matches[b].start
                  \/ page.matches[b].end <= page.matches[a].start

\* Marks of a text where "So go on." and "Go on." are both terms of both
\* groups: the second occurs inside the first and on its own
C19_Witness ==
  /\ page.stage = "marks"
  /\ \A g \in 1..2 :
       {<<"S","o"," ","g","o"," ","o","n",".">>, <<"G","o"," ","o","n",".">>}
         \subseteq Range(page.groups[g].terms)
  /\ \E a, b \in DOMAIN page.matches :
       /\ page.matches[a].end - page.matches[a].start = 9
       /\ page.matches[b].end - page.matches[b].start = 6

\* C20: the plagiarism score of a sentence before it is scaled and rounded is
\* the maximum (not the sum) of its internal similarity times the internal
\* weight, its external similarity times the external weight and its
\* plagiarism pattern score, clamped to 1.  The weights are those of the
\* code, 6.5 and 8.2; the sentences are shorter than 180 characters.
C20_PlagiarismIsWorstCase ==
  pc = "done" =>
    \A i \in DOMAIN inputHeuristics :
      Len(inputHeuristics[i].sentence) <= 180 =>
        inputHeuristics[i].plagiarismScore
          = Min2(Unit,
                 Max2(Scale(inputHeuristics[i].internalSimilarity, 65, 10),
                      Max2(Scale(inputHeuristics[i].externalSimilarity, 82, 10),
                           detectPlagiarismPatterns(inputHeuristics[i].sentence))))

occursAt(text, term, q) ==
  /\ q + Len(term) - 1 <= Len(text)
  /\ toLowerCase(SubSeq(text, q, q + Len(term) - 1)) = toLowerCase(term)

\* The occurrence of length n at position q is a mark
markedAt(q, n) ==
  \E m \in DOMAIN page.matches :
    page.matches[m].start = q - 1 /\ page.matches[m].end = q - 1 + n

\* The terms of all the groups of the page
pageTerms == UNION {Range(page.groups[g].terms) : g \in DOMAIN page.groups}

\* C22: whenever an occurrence of a longer term and an occurrence of a
\* shorter term overlap in the text, the longer occurrence is marked and the
\* shorter one is not
C22_LongerOccurrenceWins ==
  page.stage = "marks" =>
    \A long, short \in pageTerms :
      Len(long) > Len(short) =>
        \A q1, q2 \in DOMAIN page.text :
          (/\ occursAt(page.text, long, q1)
           /\ occursAt(page.text, short, q2)
           /\ q1 < q2 + Len(short)
           /\ q2 < q1 + Len(long))
            => (markedAt(q1, Len(long)) /\ ~markedAt(q2, Len(short)))

\* C23: in the DOCX preview, whenever an occurrence of a longer term and an
\* occurrence of a shorter term overlap inside the text node, the longer
\* occurrence is marked and the shorter one is not, also when the shorter
\* occurrence starts earlier
C23_DocxLongerOccurrenceWins ==
  page.stage = "docx" =>
    \A long, short \in pageTerms :
      Len(long) > Len(short) =>
        \A q1, q2 \in DOMAIN page.text :
          (/\ occursAt(page.text, long, q1)
           /\ occursAt(page.text, short, q2)
           /\ q1 < q2 + Len(short)
           /\ q2 < q1 + Len(long))
            => (markedAt(q1, Len(long)) /\ ~markedAt(q2, Len(short)))

\* The text handed to the segmenter has been split by splitSentences
Segmented == segments.sentences # << "none" >>

\* s has a character and neither starts nor ends with whitespace
IsTrimmed(s) == s # <<>> /\ ~IsSpace(s[1]) /\ ~IsSpace(s[Len(s)])

\* text has no terminal punctuation mark and at least one non-whitespace character
Unpunctuated(text) ==
  /\ \A k \in DOMAIN text : text[k] \notin {".", "!", "?"}
  /\ \E k \in DOMAIN text : ~IsSpace(text[k])

C25_TwoPassEqualsLookbehind ==
  (Segmented /\ segments.twoPass # << "none" >>) =>
    segments.twoPass = segments.sentences

\* The highest jaccard of gram with a document of corpusSets, 0 without one
maxJaccard(gram, corpusSets) ==
  GreatestOf({jaccard(gram, corpusSets[k].set) : k \in DOMAIN corpusSets}, 0)

\* The result of a scan is the maximum, and its source, if any, attains it
IsExternalMax(res, gram, corpusSets) ==
  /\ res.externalSimilarity = maxJaccard(gram, corpusSets)
  /\ res.source # <<>> =>
       \E k \in DOMAIN corpusSets :
          /\ corpusSets[k].name = res.source[1]
          /\ jaccard(gram, corpusSets[k].set) = maxJaccard(gram, corpusSets)

\* The result of a scan is the similarity of its source, which is the maximum
\* unless it is above 0.98
IsExternalMaxOrNearPerfect(res, gram, corpusSets) ==
  /\ res.externalSimilarity <= maxJaccard(gram, corpusSets)
  /\ \/ res.externalSimilarity = maxJaccard(gram, corpusSets)
     \/ res.externalSimilarity > Scale(Num(1), 98, 100)
  /\ res.source # <<>> =>
       \E k \in DOMAIN corpusSets :
          /\ corpusSets[k].name = res.source[1]
          /\ jaccard(gram, corpusSets[k].set) = res.externalSimilarity

\* C26: the external similarity is the maximum Jaccard similarity over all
\* corpus documents and the source is a document that attains it, also when
\* the scan stops early on a match above 0.98
C26_ExternalIsMaximum ==
  /\ scan.all # <<>> => IsExternalMax(scan.all[1], scan.gram, scan.corpusSets)
  /\ scan.short # <<>> => IsExternalMax(scan.short[1], scan.gram, scan.corpusSets)

\* C26 amended: the scan of every document returns the maximum and a document
\* that attains it; the scan that stops early returns the similarity of the
\* document it names, which is the maximum or a value above 0.98
C26_ExternalIsMaximumUnlessStopped ==
  /\ scan.all # <<>> => IsExternalMax(scan.all[1], scan.gram, scan.corpusSets)
  /\ scan.short # <<>> =>
       IsExternalMaxOrNearPerfect(scan.short[1], scan.gram, scan.corpusSets)

C26_Witness ==
  /\ scan.all # <<>>
  /\ scan.short # <<>>
  /\ Len(scan.corpusSets) = MaxScanCorpus
  /\ scan.all[1].source = << "same" >>
  /\ scan.short[1].source = << "longer" >>
  /\ scan.short[1].externalSimilarity < scan.all[1].externalSimilarity

\* C27: every ModelPrediction that predict returns, from the ML path or from
\* fallbackPrediction, has aiScore, plagiarismScore and confidence in [0,100]
C27_PredictionInRange ==
  (mlPromise.state = "fulfilled" /\ mlPromise.value # <<>>) =>
    /\ Num(0) <= mlPromise.value[1].aiScore /\ mlPromise.value[1].aiScore <= Num(100)
    /\ Num(0) <= mlPromise.value[1].plagiarismScore
    /\ mlPromise.value[1].plagiarismScore <= Num(100)
    /\ Num(0) <= mlPromise.value[1].confidence /\ mlPromise.value[1].confidence <= Num(100)

\* C28: all else equal, the AI score of a sentence never decreases when the
\* lexical diversity, the syntactic complexity or the semantic coherence
\* falls or when the AI-pattern score rises, and never increases when the
\* academic-pattern score rises
C28_AIScoreIsMonotonic ==
  (probe # NoProbe /\ probe.scores # <<>>) =>
    IF probe.feature \in {"ttr", "syntaxComp", "semCoherence", "academicBonus"}
    THEN probe.scores[1] >= probe.scores[2]
    ELSE probe.scores[1] <= probe.scores[2]

\* C29: in every interleaving of concurrent initialize and predict calls on
\* the singleton, the classifier and the embedder are each loaded at most
\* once, and no predict call calls a pipeline that has not been assigned
C29_PipelinesLoadedOnce ==
  /\ mlModel.loaded.classifier <= 1
  /\ mlModel.loaded.embedder <= 1
  /\ 0 \notin mlModel.used

\* The texts of the parts k.. one after the other
RECURSIVE textOfParts(_, _)
textOfParts(parts, k) ==
  IF k > Len(parts) THEN <<>> ELSE parts[k].text \o textOfParts(parts, k + 1)

\* C30: the parts HighlightedText renders, plain spans and marks in order,
\* concatenate to the text: no character is dropped, repeated or moved
C30_PartsSpellTheText ==
  page.stage = "marks" => textOfParts(page.parts, 1) = page.text

C30_Witness ==
  /\ page.stage = "marks"
  /\ Len(page.parts) >= 4
  /\ page.parts[1].kind = "span"
  /\ page.parts[Len(page.parts)].kind = "span"
  /\ \E k \in DOMAIN page.parts : page.parts[k].kind = "mark" /\ Len(page.parts[k].text) > 1
  /\ textOfParts(page.parts, 1) = page.text
====
